---- MODULE Spec2Model ----
(***************************************************************************)
(* nectime: session registry (sessions.json), local log (local_log.json)   *)
(* and the consolidation / adjustment / rounding engine of `push`.         *)
(*                                                                         *)
(* Conventions of the model                                                *)
(*   - timestamps are seconds since 00:00 of day 0; day 0 is a Friday;     *)
(*     a date is the day number of a timestamp (begin[:10] in the code);   *)
(*   - Python None / missing key is "" for strings, 0 for project ids      *)
(*     (both are falsy in the code's truth tests), -1 for numbers;         *)
(*   - the registry is an ordered dict: a sequence of records keyed by     *)
(*     their sid field, in insertion order.                                *)
(***************************************************************************)
EXTENDS Integers, Sequences, FiniteSets, TLC

\* ------------------------------------------------------------------ bounds
MaxEntries == 2
MaxLogged == 3
MaxTicks == 2
MaxTimesheets == 3
MaxFilled == 4
MaxFlight == 2
MaxCalls == 5

\* ------------------------------------------------------- program constants
RoundStep == 30
MinRounded == 30
DefaultMaxHours == 12
DefaultLimitHours == 8
DefaultInterval == 15

\* ------------------------------------------------------------ input domains
SIDs == {"s1", "s2"}
NoSid == ""
\* fA and fB are unrelated folders; fA/sub is a directory inside fA
Folders == {"fA", "fB"}
Labels == {"dev_applicatif", "reunion", "veille"}
LabelsSorted == <<"dev_applicatif", "reunion", "veille">>
NoLabel == ""
FolderTypes == {"pro", "perso", "pending", "off"}

DaySeconds == 24 * 60 * 60
T0 == 9 * 60 * 60
ShortStep == 21 * 60 + 30
TickSteps == {ShortStep, 13 * 60 * 60}

\* ------------------------------------------------------------------- state
VARIABLES
    sessions,   \* sessions.json: ordered registry of open sessions
    log,        \* local_log.json: [entries, daily_totals]
    mappings,   \* folder_mappings.json: folder -> mapping
    config,     \* config.json
    now,        \* datetime.now()
    ticks,      \* number of clock advances so far
    kimai,      \* timesheets created on the external service
    inflight,   \* the invocations between their reads and their last write
    invoked,    \* number of invocations (processes, direct calls) started so far
    ended,      \* identifiers whose session was stopped, cancelled or reclaimed
    last        \* outcome of the last invocation

vars == <<sessions, log, mappings, config, now, ticks, kimai, inflight, invoked, ended,
          last>>

\* ----------------------------------------------------------------- helpers
RECURSIVE SumOver(_, _)
SumOver(f, S) ==
    IF S = {} THEN 0
    ELSE LET x == CHOOSE y \in S : TRUE IN f[x] + SumOver(f, S \ {x})

Max(a, b) == IF a >= b THEN a ELSE b

\* begin[:10] / datetime.date()
DateOf(t) == t \div DaySeconds

\* int((b - a).total_seconds() / 60)
Minutes(a, b) == (b - a) \div 60

\* datetime.weekday() < 5 ; day 0 is a Friday (weekday 4)
is_weekday(date) == ((date + 4) % 7) < 5

\* ---------------------------------------------------------------- registry
Keys(ss) == {ss[i].sid : i \in DOMAIN ss}
IndexOf(ss, sid) == CHOOSE i \in DOMAIN ss : ss[i].sid = sid
Get(ss, sid) == ss[IndexOf(ss, sid)]
Put(ss, rec) ==
    IF rec.sid \in Keys(ss)
    THEN [ss EXCEPT ![IndexOf(ss, rec.sid)] = rec]
    ELSE Append(ss, rec)
Pop(ss, sid) == SelectSeq(ss, LAMBDA r : r.sid # sid)

get_folder_sessions(ss, folder) == {ss[i].sid : i \in {j \in DOMAIN ss : ss[j].folder = folder}}

\* _get_session that, without an identifier, takes the folder's session that
\* was opened last
get_session_latest(ss, folder, session_id) ==
    IF session_id # NoSid
    THEN (IF session_id \in Keys(ss) THEN session_id ELSE NoSid)
    ELSE LET fi == {j \in DOMAIN ss : ss[j].folder = folder}
         IN IF fi = {} THEN NoSid
            ELSE ss[CHOOSE j \in fi : \A k \in fi : k <= j].sid

\* SessionManager._get_session: the key of the resolved session, NoSid for None
get_session(ss, folder, session_id) ==
    IF session_id # NoSid
    THEN (IF session_id \in Keys(ss) THEN session_id ELSE NoSid)
    ELSE LET fs == get_folder_sessions(ss, folder)
         IN IF Cardinality(fs) = 1 THEN CHOOSE s \in fs : TRUE ELSE NoSid

\* SessionManager._get_effective_sid: _inferred_sid exists only once
\* _get_session has resolved a single folder session
get_effective_sid(ss, folder, session_id) ==
    IF session_id # NoSid THEN session_id ELSE get_session(ss, folder, session_id)

is_active(ss, folder, session_id) == get_session(ss, folder, session_id) # NoSid

\* SessionManager._set_session(data) with data not None; [saved, ss]
set_session(ss, folder, session_id, rec) ==
    LET sid == get_effective_sid(ss, folder, session_id)
    IN IF sid = NoSid
       THEN [saved |-> FALSE, ss |-> ss]
       ELSE [saved |-> TRUE, ss |-> Put(ss, [rec EXCEPT !.sid = sid])]

\* SessionManager._set_session(None)
unset_session(ss, folder, session_id) ==
    LET sid == get_effective_sid(ss, folder, session_id)
    IN IF sid = NoSid
       THEN [saved |-> FALSE, ss |-> ss]
       ELSE [saved |-> TRUE, ss |-> Pop(ss, sid)]

NewSession(folder, folder_type, project_id, t) ==
    [sid |-> NoSid, begin |-> t, folder |-> folder, folder_type |-> folder_type,
     project_id |-> project_id, last_activity |-> t, activity_log |-> <<>>,
     activity_breakdown |-> [l \in Labels |-> 0],
     current_activity_estimate |-> NoLabel, description |-> "",
     last_activity_estimate_time |-> -1]

\* start without the test for an open session
start_overwrite(ss, folder, session_id, folder_type, project_id, t) ==
    LET w == set_session(ss, folder, session_id,
                         NewSession(folder, folder_type, project_id, t))
    IN [raised |-> FALSE, saved |-> w.saved, ss |-> w.ss]

\* SessionManager.start; [raised, saved, ss]
start(ss, folder, session_id, folder_type, project_id, t) ==
    IF is_active(ss, folder, session_id)
    THEN [raised |-> TRUE, saved |-> FALSE, ss |-> ss]
    ELSE LET w == set_session(ss, folder, session_id,
                              NewSession(folder, folder_type, project_id, t))
         IN [raised |-> FALSE, saved |-> w.saved, ss |-> w.ss]

\* update_activity that opens a session when the identifier has none
update_activity_upsert(ss, folder, session_id, estimate, t) ==
    LET sid == get_session(ss, folder, session_id)
        s == IF sid = NoSid THEN NewSession(folder, "pro", 0, t) ELSE Get(ss, sid)
    IN set_session(ss, folder, session_id, [s EXCEPT !.last_activity = t])

\* update_activity that keeps the latest observation only: the activity log
\* is replaced by the new record and the accumulator of the label is set to 1
update_activity_latest_only(ss, folder, session_id, estimate, t) ==
    LET sid == get_session(ss, folder, session_id)
    IN IF sid = NoSid
       THEN [saved |-> FALSE, ss |-> ss]
       ELSE LET s == Get(ss, sid)
                s1 == [s EXCEPT !.last_activity = t]
                s2 == IF estimate # NoLabel
                      THEN [s1 EXCEPT
                              !.activity_log = <<[time |-> (t % DaySeconds) \div 60,
                                                  estimate |-> estimate]>>,
                              !.activity_breakdown[estimate] = 1,
                              !.current_activity_estimate = estimate]
                      ELSE s1
            IN set_session(ss, folder, session_id, s2)

\* SessionManager.update_activity; [saved, ss]
update_activity(ss, folder, session_id, estimate, t) ==
    LET sid == get_session(ss, folder, session_id)
    IN IF sid = NoSid
       THEN [saved |-> FALSE, ss |-> ss]
       ELSE LET s == Get(ss, sid)
                s1 == [s EXCEPT !.last_activity = t]
                s2 == IF estimate # NoLabel
                      THEN [s1 EXCEPT
                              !.activity_log = Append(@, [time |-> (t % DaySeconds) \div 60,
                                                           estimate |-> estimate]),
                              !.activity_breakdown[estimate] = @ + 1,
                              !.current_activity_estimate = estimate]
                      ELSE s1
            IN set_session(ss, folder, session_id, s2)

\* session_data with the two durations exchanged
StopData_swapped(s, t) ==
    [begin |-> s.begin, folder |-> s.folder, folder_type |-> s.folder_type,
     project_id |-> s.project_id, activity |-> NoLabel,
     current_activity_estimate |-> s.current_activity_estimate,
     end |-> t,
     billed_minutes |-> Minutes(s.begin, s.last_activity),
     real_minutes |-> Minutes(s.begin, t),
     description |-> s.description]

\* the record SessionManager.stop returns (session_data)
StopData(s, t) ==
    [begin |-> s.begin, folder |-> s.folder, folder_type |-> s.folder_type,
     project_id |-> s.project_id, activity |-> NoLabel,
     current_activity_estimate |-> s.current_activity_estimate,
     end |-> t,
     billed_minutes |-> Minutes(s.begin, t),
     real_minutes |-> Minutes(s.begin, s.last_activity),
     description |-> s.description]

\* stop that answers with an empty record when nothing is open
stop_silent(ss, folder, session_id, t) ==
    LET sid == get_session(ss, folder, session_id)
    IN IF sid = NoSid
       THEN [raised |-> FALSE, saved |-> FALSE, ss |-> ss,
             data |-> StopData(NewSession(folder, "pro", 0, t), t)]
       ELSE LET w == unset_session(ss, folder, session_id)
            IN [raised |-> FALSE, saved |-> w.saved, ss |-> w.ss,
                data |-> StopData(Get(ss, sid), t)]

\* stop that closes every session of the folder of the stopped one
stop_folder(ss, folder, session_id, t) ==
    LET sid == get_session(ss, folder, session_id)
    IN IF sid = NoSid
       THEN [raised |-> TRUE, saved |-> FALSE, ss |-> ss,
             data |-> StopData(NewSession(folder, "pro", 0, t), t)]
       ELSE [raised |-> FALSE, saved |-> TRUE,
             ss |-> SelectSeq(ss, LAMBDA r : r.folder # Get(ss, sid).folder),
             data |-> StopData(Get(ss, sid), t)]

\* SessionManager.stop; [raised, saved, ss, data]
stop(ss, folder, session_id, t) ==
    LET sid == get_session(ss, folder, session_id)
    IN IF sid = NoSid
       THEN [raised |-> TRUE, saved |-> FALSE, ss |-> ss,
             data |-> StopData(NewSession(folder, "pro", 0, t), t)]
       ELSE LET w == unset_session(ss, folder, session_id)
            IN [raised |-> FALSE, saved |-> w.saved, ss |-> w.ss,
                data |-> StopData(Get(ss, sid), t)]

\* cancel that drops every session of the manager's folder
cancel_folder(ss, folder, session_id) ==
    [saved |-> TRUE, ss |-> SelectSeq(ss, LAMBDA r : r.folder # folder)]

\* SessionManager.cancel, the manager having resolved its session (is_active)
\* or holding an explicit identifier
cancel(ss, folder, session_id) == unset_session(ss, folder, session_id)

\* --------------------------------------------------------------- local log
EmptyLog == [entries |-> <<>>, daily_totals |-> [d \in {} |-> [billed |-> 0, real |-> 0]]]

\* daily totals that keep the minutes of the last entry of the date only
AddTotals_last(totals, date, billed, real) ==
    [d \in DOMAIN totals \cup {date} |->
        IF d = date THEN [billed |-> billed, real |-> real] ELSE totals[d]]

\* daily_totals[date] of add_entry and fill_empty_weekdays: created at zero,
\* then incremented
AddTotals(totals, date, billed, real) ==
    [d \in DOMAIN totals \cup {date} |->
        LET old == IF d \in DOMAIN totals THEN totals[d] ELSE [billed |-> 0, real |-> 0]
        IN IF d = date
           THEN [billed |-> old.billed + billed, real |-> old.real + real]
           ELSE old]

\* the entry LocalLogger.add_entry builds from session_data
EntryOf(sd, pushed) ==
    [date |-> DateOf(sd.begin), folder |-> sd.folder, folder_type |-> sd.folder_type,
     project_id |-> sd.project_id, activity |-> sd.activity,
     begin |-> sd.begin, end |-> sd.end,
     billed_minutes |-> sd.billed_minutes, real_minutes |-> sd.real_minutes,
     pushed_to_kimai |-> pushed, description |-> sd.description,
     filled_from |-> -1, adjusted_minutes |-> -1, consolidated_with |-> 0]

\* LocalLogger.add_entry (append, update the daily totals, save)
add_entry(lg, sd, pushed) ==
    LET e == EntryOf(sd, pushed)
    IN [entries |-> Append(lg.entries, e),
        daily_totals |-> AddTotals(lg.daily_totals, e.date, e.billed_minutes, e.real_minutes)]

\* LocalLogger.get_kimai_pushed_minutes
get_kimai_pushed_minutes(lg, date) ==
    LET E == lg.entries
        S == {i \in DOMAIN E : E[i].date = date /\ E[i].pushed_to_kimai}
    IN SumOver([i \in S |-> E[i].billed_minutes], S)

\* ------------------------------------------------------------------ config
\* config.get("default_activity", "dev_applicatif")
default_activity(cfg) ==
    IF cfg.default_activity # NoLabel THEN cfg.default_activity ELSE "dev_applicatif"

\* config.get("daily_limit_hours", 8) * 60
daily_limit(cfg) ==
    (IF cfg.daily_limit_hours >= 0 THEN cfg.daily_limit_hours ELSE DefaultLimitHours) * 60

\* every label has an identifier
activity_id_any(cfg, activity) == activity # NoLabel

\* config["activity_mappings"].get(activity, {}).get("id")
activity_id(cfg, activity) == activity \in cfg.activity_mappings

\* ------------------------------------------------------ orphan reclamation
\* orphaned from the age limit on, not only beyond it
is_old_from_limit(s, t, max_hours) ==
    DateOf(s.begin) # DateOf(t) \/ (t - s.begin) >= max_hours * 3600

\* is_old of cleanup_old_sessions
is_old(s, t, max_hours) ==
    DateOf(s.begin) # DateOf(t) \/ (t - s.begin) > max_hours * 3600

\* session_data of a reclaimed session that ends at its begin
OrphanData_empty(s, cfg) ==
    [begin |-> s.begin, folder |-> s.folder, folder_type |-> s.folder_type,
     project_id |-> s.project_id,
     activity |-> IF s.current_activity_estimate # NoLabel
                  THEN s.current_activity_estimate
                  ELSE default_activity(cfg),
     current_activity_estimate |-> s.current_activity_estimate,
     end |-> s.begin, billed_minutes |-> 0, real_minutes |-> 0,
     description |-> s.description]

\* session_data of a reclaimed session
OrphanData(s, cfg) ==
    [begin |-> s.begin, folder |-> s.folder, folder_type |-> s.folder_type,
     project_id |-> s.project_id,
     activity |-> IF s.current_activity_estimate # NoLabel
                  THEN s.current_activity_estimate
                  ELSE default_activity(cfg),
     current_activity_estimate |-> s.current_activity_estimate,
     end |-> s.last_activity,
     billed_minutes |-> Minutes(s.begin, s.last_activity),
     real_minutes |-> Minutes(s.begin, s.last_activity),
     description |-> s.description]

RECURSIVE CleanupFrom(_, _, _, _, _, _)
CleanupFrom(i, ss, acc, cfg, t, max_hours) ==
    IF i > Len(ss) THEN acc
    ELSE LET s == ss[i]
         IN IF is_old(s, t, max_hours)
            THEN CleanupFrom(i + 1, ss,
                     [ss |-> Pop(acc.ss, s.sid),
                      log |-> add_entry(acc.log, OrphanData(s, cfg), FALSE),
                      closed |-> Append(acc.closed, s.sid)],
                     cfg, t, max_hours)
            ELSE CleanupFrom(i + 1, ss, acc, cfg, t, max_hours)

\* reclamation that logs the orphans and keeps them in the registry
cleanup_keep_registry(ss, lg, cfg, t, max_hours) ==
    [CleanupFrom(1, ss, [ss |-> ss, log |-> lg, closed |-> <<>>], cfg, t, max_hours)
        EXCEPT !.ss = ss]

\* SessionManager.cleanup_old_sessions(logger, config, max_hours); [ss, log, closed]
\* the registry is saved iff closed is not empty
cleanup_old_sessions(ss, lg, cfg, t, max_hours) ==
    CleanupFrom(1, ss, [ss |-> ss, log |-> lg, closed |-> <<>>], cfg, t, max_hours)

SeqToSet(q) == {q[i] : i \in DOMAIN q}

\* ----------------------------------------------------------------- outcome
\* op, sid, result: the invocation that just ended, the identifier it worked
\* on and what it answered; groups, before: the report of a push; data: the
\* record a stop returned, the estimate an update was given, the invocation a
\* cleanup came after
Outcome(op, sid, result) ==
    [op |-> op, sid |-> sid, result |-> result, groups |-> <<>>, before |-> {},
     data |-> <<>>]
Idle == Outcome("", NoSid, "")

\* an invocation that waits (for the external service, for git, for its next
\* statement) between the files it read and the files it will write: the
\* operation and its arguments, the sessions.json (ss) and the local_log.json
\* (log) its process holds in memory when it will write them again (empty
\* otherwise), what it computed so far (data) and the hook input it was
\* started with
Flight(op, cwd, session_id, ss, lg, data, hook_input) ==
    [op |-> op, cwd |-> cwd, session_id |-> session_id, ss |-> ss, log |-> lg,
     data |-> data, input |-> hook_input]
Flights(op) == {k \in DOMAIN inflight : inflight[k].op = op}
\* the invocations in flight once the k-th has run to its end
Landed(k) == SubSeq(inflight, 1, k - 1) \o SubSeq(inflight, k + 1, Len(inflight))

\* os.path.dirname: fA/sub is a directory of fA; the parent of a top folder is
\* the root ("" here), which is never a key of the mappings
Parent(folder) == IF folder = "fA/sub" THEN "fA" ELSE ""

\* get_folder_mapping: the mapping of the folder or of its nearest ancestor
\* that has one
RECURSIVE get_folder_mapping(_, _)
get_folder_mapping(mp, folder) ==
    IF folder = ""
    THEN [present |-> FALSE, folder_type |-> "", project_id |-> 0,
          custom_activity |-> NoLabel]
    ELSE IF mp[folder].present THEN mp[folder]
    ELSE get_folder_mapping(mp, Parent(folder))

\* ============================================================== hook events
\* hook_wrapper.start_session (SessionStart, source startup). With an open
\* session, or a folder that has a mapping, it runs to its end. On a folder
\* without mapping it runs up to the project search (find_project_by_name, a
\* GET): the registry it read, orphans removed, stays in its memory
start_session_event(cwd, session_id, hook_input) ==
    /\ config.present
    /\ LET cl == cleanup_old_sessions(sessions, log, config, now, DefaultMaxHours)
           mapping == get_folder_mapping(mappings, cwd)
           active == is_active(cl.ss, cwd, session_id)
           off == mapping.present /\ mapping.folder_type = "off"
           searching == ~active /\ ~mapping.present
           started == ~active /\ mapping.present /\ ~off
           st == start(cl.ss, cwd, session_id, mapping.folder_type, mapping.project_id, now)
       IN /\ Len(cl.log.entries) <= MaxEntries
          /\ searching => Len(inflight) < MaxFlight
          /\ log' = cl.log
          /\ sessions' = IF started THEN st.ss ELSE cl.ss
          /\ ended' = IF started
                      THEN (ended \cup SeqToSet(cl.closed)) \ {session_id}
                      ELSE ended \cup SeqToSet(cl.closed)
          /\ inflight' = IF searching
                         THEN Append(inflight, Flight("start_session", cwd, session_id,
                                                      cl.ss, EmptyLog, <<>>, hook_input))
                         ELSE inflight
          /\ last' = [Outcome("start_session", session_id,
                               IF active THEN "active" ELSE IF off THEN "off"
                               ELSE IF searching THEN "loaded" ELSE "started")
                         EXCEPT !.data = hook_input]
    /\ UNCHANGED <<mappings, config, now, ticks, kimai>>

\* hook_wrapper.start_session called on its own
start_session(cwd, session_id) == start_session_event(cwd, session_id, <<>>)

\* hook_wrapper.start_session on a folder without mapping, after the project
\* search: sm.start("pending", None, folder_name) puts the session into the
\* registry that was read before the search and writes the whole of it
start_session_save ==
    \E k \in Flights("start_session") :
        LET f == inflight[k]
            st == start(f.ss, f.cwd, f.session_id, "pending", 0, now)
        IN /\ sessions' = IF st.saved THEN st.ss ELSE sessions
           /\ ended' = ended \ {f.session_id}
           /\ inflight' = Landed(k)
           /\ last' = [Outcome("start_session", f.session_id, "started")
                          EXCEPT !.data = f.input]
           /\ UNCHANGED <<log, mappings, config, now, ticks, kimai>>

\* hook_wrapper.stop_session (SessionEnd) up to the git log subprocess
\* (get_git_commits): the manager and the logger were built (sessions.json and
\* local_log.json read), sm.stop() has removed the session and saved the
\* registry; without an open session it returns at once
stop_session_event(cwd, session_id, hook_input) ==
    /\ config.present
    /\ IF ~is_active(sessions, cwd, session_id)
       THEN /\ last' = [Outcome("stop_session", session_id, "inactive")
                           EXCEPT !.data = hook_input]
            /\ UNCHANGED <<sessions, ended, inflight>>
       ELSE LET r == stop(sessions, cwd, session_id, now)
                activity == IF r.data.current_activity_estimate # NoLabel
                            THEN r.data.current_activity_estimate
                            ELSE default_activity(config)
                sd == [r.data EXCEPT !.activity = activity]
            IN /\ Len(log.entries) < MaxEntries
               /\ Len(inflight) < MaxFlight
               /\ sessions' = r.ss
               /\ ended' = ended \cup {session_id}
               /\ inflight' = Append(inflight, Flight("stop_session", cwd, session_id,
                                                      <<>>, log, sd, hook_input))
               /\ last' = [Outcome("stop_session", session_id, "loaded")
                              EXCEPT !.data = hook_input]
    /\ UNCHANGED <<log, mappings, config, now, ticks, kimai>>

\* hook_wrapper.stop_session called on its own
stop_session(cwd, session_id) == stop_session_event(cwd, session_id, <<>>)

\* hook_wrapper.stop_session after the git log subprocess: logger.add_entry
\* appends to the log that was read at the top and writes the whole of it
stop_session_save ==
    \E k \in Flights("stop_session") :
        /\ log' = add_entry(inflight[k].log, inflight[k].data, FALSE)
        /\ inflight' = Landed(k)
        /\ last' = [Outcome("stop_session", inflight[k].session_id, "stopped")
                       EXCEPT !.data = inflight[k].input]
        /\ UNCHANGED <<sessions, mappings, config, now, ticks, kimai, ended>>

\* body of hook_wrapper.update_activity on the registry the manager loaded
HookUpdate(ss, cfg, cwd, session_id, prompt, estimated, t) ==
    IF ~is_active(ss, cwd, session_id)
    THEN [saved |-> FALSE, ss |-> ss]
    ELSE LET s == Get(ss, get_session(ss, cwd, session_id))
             s1 == [s EXCEPT !.last_activity = t]
             should_estimate ==
                 \/ s.last_activity_estimate_time < 0
                 \/ t - s.last_activity_estimate_time >= cfg.auto_interval * 60
             current == s.current_activity_estimate
             s2 == IF cfg.auto_enabled /\ should_estimate /\ prompt
                   THEN LET s3 == IF estimated # NoLabel /\ estimated # current
                                     /\ ~(cfg.auto_ask /\ current # NoLabel)
                                  THEN [s1 EXCEPT !.current_activity_estimate = estimated]
                                  ELSE s1
                        IN IF estimated # NoLabel
                           THEN [s3 EXCEPT !.last_activity_estimate_time = t]
                           ELSE s3
                   ELSE s1
         IN set_session(ss, cwd, session_id, s2)

\* hook_wrapper.update_activity (UserPromptSubmit), first half:
\* SessionManager.__init__ reads sessions.json
update_activity_load(cwd, session_id) ==
    /\ config.present
    /\ Len(inflight) < MaxFlight
    /\ inflight' = Append(inflight, Flight("update_activity", cwd, session_id,
                                           sessions, EmptyLog, <<>>, <<>>))
    /\ last' = Outcome("update_activity", session_id, "loaded")
    /\ UNCHANGED <<sessions, log, mappings, config, now, ticks, kimai, ended>>

\* hook_wrapper.update_activity, second half: mutate the loaded registry and
\* write the whole of it back
update_activity_save(prompt, estimated) ==
    \E k \in Flights("update_activity") :
        LET f == inflight[k]
            r == HookUpdate(f.ss, config, f.cwd, f.session_id, prompt, estimated, now)
        IN /\ sessions' = IF r.saved THEN r.ss ELSE sessions
           /\ last' = Outcome("update_activity", f.session_id,
                              IF r.saved THEN "saved" ELSE "inactive")
           /\ inflight' = Landed(k)
           /\ UNCHANGED <<log, mappings, config, now, ticks, kimai, ended>>

\* hook_wrapper.update_activity run from its load to its save with no other
\* invocation in between
update_activity_event(cwd, session_id, prompt, estimated, hook_input) ==
    /\ config.present
    /\ LET r == HookUpdate(sessions, config, cwd, session_id, prompt, estimated, now)
       IN /\ sessions' = IF r.saved THEN r.ss ELSE sessions
          /\ last' = [Outcome("update_activity", session_id,
                               IF r.saved THEN "saved" ELSE "inactive")
                         EXCEPT !.data = hook_input]
    /\ UNCHANGED <<log, mappings, config, now, ticks, kimai, inflight, ended>>

hook_update_activity(cwd, session_id, prompt, estimated) ==
    update_activity_event(cwd, session_id, prompt, estimated, <<>>)

\* an exit for the missing configuration that comes after the folder mappings
\* file was rewritten empty
load_config_exit_late(op, session_id, hook_input) ==
    /\ ~config.present
    /\ mappings' = [f \in Folders \cup {"fA/sub"} |-> [present |-> FALSE, folder_type |-> "",
                                        project_id |-> 0, custom_activity |-> NoLabel]]
    /\ last' = [Outcome(op, session_id, "ConfigurationMissing") EXCEPT !.data = hook_input]
    /\ UNCHANGED <<sessions, log, config, now, ticks, kimai, inflight, ended>>

\* load_config with config.json missing: the message, then sys.exit(1); it is
\* the first statement of every command that reads the configuration
load_config_exit(op, session_id, hook_input) ==
    /\ ~config.present
    /\ last' = [Outcome(op, session_id, "ConfigurationMissing") EXCEPT !.data = hook_input]
    /\ UNCHANGED <<sessions, log, mappings, config, now, ticks, kimai, inflight, ended>>

\* hook_wrapper.main: hook_input is the JSON read from stdin (session_id NoSid
\* and source "" when the key is missing, prompt TRUE for a non-empty prompt);
\* estimated is what estimate_activity answers for the prompt
SkippedSources == {"resume", "clear", "compact"}
HookInput(event, source, cwd, session_id) ==
    [hook_event_name |-> event, source |-> source, cwd |-> cwd,
     session_id |-> session_id, prompt |-> TRUE]
\* a main that starts a session for every SessionStart, whatever its source
main_any_source(hook_input, estimated) ==
    LET cwd == hook_input.cwd
        session_id == hook_input.session_id
        event == hook_input.hook_event_name
    IN IF \/ session_id = NoSid
          \/ event \notin {"SessionStart", "SessionEnd", "UserPromptSubmit"}
       THEN /\ last' = [Outcome("main", session_id, "ignored") EXCEPT !.data = hook_input]
            /\ UNCHANGED <<sessions, log, mappings, config, now, ticks, kimai, inflight,
                           ended>>
       ELSE IF event = "SessionStart"
       THEN start_session_event(cwd, session_id, hook_input)
       ELSE IF event = "SessionEnd"
       THEN stop_session_event(cwd, session_id, hook_input)
       ELSE update_activity_event(cwd, session_id, hook_input.prompt, estimated,
                                  hook_input)

main(hook_input, estimated) ==
    LET cwd == hook_input.cwd
        session_id == hook_input.session_id
        event == hook_input.hook_event_name
    IN IF \/ session_id = NoSid
          \/ event = "SessionStart" /\ hook_input.source \in SkippedSources
          \/ event \notin {"SessionStart", "SessionEnd", "UserPromptSubmit"}
       THEN /\ last' = [Outcome("main", session_id, "ignored") EXCEPT !.data = hook_input]
            /\ UNCHANGED <<sessions, log, mappings, config, now, ticks, kimai, inflight,
                           ended>>
       ELSE IF event = "SessionStart"
       THEN \/ load_config_exit("start_session", session_id, hook_input)
            \/ start_session_event(cwd, session_id, hook_input)
       ELSE IF event = "SessionEnd"
       THEN \/ load_config_exit("stop_session", session_id, hook_input)
            \/ stop_session_event(cwd, session_id, hook_input)
       ELSE \/ load_config_exit("update_activity", session_id, hook_input)
            \/ update_activity_event(cwd, session_id, hook_input.prompt, estimated,
                                     hook_input)

\* ============================================================= CLI commands
\* KimaiClient.create_timesheet as cmd_stop / cmd_push record it
Timesheet(by, date, project_id, activity, begin, minutes) ==
    [by |-> by, date |-> date, project_id |-> project_id, activity |-> activity,
     begin |-> begin, minutes |-> minutes]

\* nectime.cmd_start up to the search of an unmapped folder: the manager has
\* no session identifier and was built from sessions.json as it is now. An
\* active session, a folder marked off and a mapped folder end the command in
\* this step; on a folder without mapping the command then waits in
\* find_project_by_name, a GET outside any try, holding the registry it read.
\* The command starts no identifier: the set of ended identifiers stays
cmd_start(folder, type_arg, project_arg) ==
    /\ config.present
    /\ LET mapping == get_folder_mapping(mappings, folder)
           active == is_active(sessions, folder, NoSid)
           off == mapping.present /\ mapping.folder_type = "off"
           st == start(sessions, folder, NoSid, mapping.folder_type,
                       mapping.project_id, now)
       IN IF active \/ off
          THEN /\ last' = Outcome("cmd_start", NoSid, IF active THEN "active" ELSE "off")
               /\ UNCHANGED <<sessions, ended, inflight>>
          ELSE IF mapping.present
          THEN /\ sessions' = IF st.saved THEN st.ss ELSE sessions
               /\ last' = Outcome("cmd_start", NoSid, "started")
               /\ UNCHANGED <<ended, inflight>>
          ELSE /\ Len(inflight) < MaxFlight
               /\ inflight' = Append(inflight,
                     Flight("cmd_start", folder, NoSid, sessions, EmptyLog,
                            [folder_type |-> IF type_arg # "" THEN type_arg ELSE "pro",
                             project_id |-> project_arg], <<>>))
               /\ last' = Outcome("cmd_start", NoSid, "loaded")
               /\ UNCHANGED <<sessions, ended>>
    /\ UNCHANGED <<log, mappings, config, now, ticks, kimai>>

\* nectime.cmd_start from the answer of find_project_by_name on; outcome is
\* the external service's answer. An exception of the GET ends the command;
\* otherwise sm.start() runs on the registry the manager read before the GET
cmd_start_save(outcome) ==
    \E k \in Flights("cmd_start") :
        LET f == inflight[k]
            st == start(f.ss, f.cwd, NoSid, f.data.folder_type, f.data.project_id, now)
        IN /\ inflight' = Landed(k)
           /\ IF outcome = "fail"
              THEN /\ last' = Outcome("cmd_start", NoSid, "ConnectionError")
                   /\ UNCHANGED <<sessions, ended>>
              ELSE /\ sessions' = IF st.saved THEN st.ss ELSE sessions
                   /\ last' = Outcome("cmd_start", NoSid, "started")
                   /\ UNCHANGED ended
           /\ UNCHANGED <<log, mappings, config, now, ticks, kimai>>

\* nectime.cmd_stop up to create_timesheet: the manager and the logger were
\* built (sessions.json and local_log.json read) and sm.stop() has removed the
\* session and saved the registry. Without a timesheet to create, or with a
\* client that does not send it (dry_run), it runs to its end
cmd_stop(folder, activity_arg) ==
    /\ config.present
    /\ LET sid == get_session(sessions, folder, NoSid)
       IN IF sid = NoSid
          THEN /\ last' = Outcome("cmd_stop", NoSid, "inactive")
               /\ UNCHANGED <<sessions, log, ended, inflight>>
          ELSE LET r == stop(sessions, folder, NoSid, now)
                   activity == IF activity_arg # NoLabel THEN activity_arg
                               ELSE IF r.data.current_activity_estimate # NoLabel
                                    THEN r.data.current_activity_estimate
                                    ELSE default_activity(config)
                   sd == [r.data EXCEPT !.activity = activity]
                   calls == sd.folder_type = "pro" /\ sd.project_id # 0
                            /\ activity_id(config, activity)
                   real == calls /\ config.dry_run = "false"
                   pushed == calls /\ config.dry_run # "true"
               IN /\ Len(log.entries) < MaxEntries
                  /\ real => Len(kimai) < MaxTimesheets /\ Len(inflight) < MaxFlight
                  /\ sessions' = r.ss
                  /\ ended' = ended \cup {sid}
                  /\ log' = IF real THEN log ELSE add_entry(log, sd, pushed)
                  /\ inflight' = IF real
                                 THEN Append(inflight, Flight("cmd_stop", folder, sid,
                                                              <<>>, log, sd, <<>>))
                                 ELSE inflight
                  /\ last' = Outcome("cmd_stop", sid, IF real THEN "loaded" ELSE "stopped")
    /\ UNCHANGED <<mappings, config, now, ticks, kimai>>

\* nectime.cmd_stop from create_timesheet on; outcome is the external service's
\* answer. An exception of the POST ends the command before logger.add_entry;
\* otherwise the entry is appended to the log read at the top and the whole of
\* it written
cmd_stop_save(outcome) ==
    \E k \in Flights("cmd_stop") :
        LET f == inflight[k]
            sd == f.data
        IN /\ outcome = "ok" => Len(kimai) < MaxTimesheets
           /\ kimai' = IF outcome = "ok"
                       THEN Append(kimai, Timesheet("stop", DateOf(sd.begin),
                                sd.project_id, sd.activity, sd.begin,
                                Minutes(sd.begin, sd.end)))
                       ELSE kimai
           /\ log' = IF outcome = "ok" THEN add_entry(f.log, sd, TRUE) ELSE log
           /\ inflight' = Landed(k)
           /\ last' = Outcome("cmd_stop", f.session_id,
                              IF outcome = "ok" THEN "stopped" ELSE "error")
           /\ UNCHANGED <<sessions, mappings, config, now, ticks, ended>>

\* nectime.cmd_cancel
cmd_cancel(folder) ==
    /\ LET sid == get_session(sessions, folder, NoSid)
       IN IF sid = NoSid
          THEN /\ last' = Outcome("cmd_cancel", NoSid, "inactive")
               /\ UNCHANGED <<sessions, ended>>
          ELSE /\ sessions' = cancel(sessions, folder, NoSid).ss
               /\ ended' = ended \cup {sid}
               /\ last' = Outcome("cmd_cancel", sid, "cancelled")
    /\ UNCHANGED <<log, mappings, config, now, ticks, kimai, inflight>>

\* nectime.cmd_cleanup
cmd_cleanup ==
    /\ config.present
    /\ LET cl == cleanup_old_sessions(sessions, log, config, now, DefaultMaxHours)
       IN /\ Len(cl.log.entries) <= MaxEntries
          /\ sessions' = cl.ss
          /\ log' = cl.log
          /\ ended' = ended \cup SeqToSet(cl.closed)
          /\ last' = [Outcome("cmd_cleanup", NoSid,
                               IF cl.closed = <<>> THEN "none" ELSE "closed")
                         EXCEPT !.data = [after |-> last.op, after_result |-> last.result]]
    /\ UNCHANGED <<mappings, config, now, ticks, kimai, inflight>>

\* nectime.cmd_activity with an activity key
cmd_activity(folder, activity_key) ==
    /\ config.present
    /\ LET sid == get_session(sessions, folder, NoSid)
       IN IF sid = NoSid
          THEN /\ last' = Outcome("cmd_activity", NoSid, "inactive")
               /\ UNCHANGED sessions
          ELSE IF Get(sessions, sid).folder_type = "pro"
                  /\ activity_key \notin config.activity_mappings
               THEN /\ last' = Outcome("cmd_activity", sid, "unknown")
                    /\ UNCHANGED sessions
               ELSE /\ sessions' = update_activity(sessions, folder, NoSid, activity_key, now).ss
                    /\ last' = Outcome("cmd_activity", sid, "changed")
    /\ UNCHANGED <<log, mappings, config, now, ticks, kimai, inflight, ended>>

\* SessionManager(folder, session_id).start(folder_type, project_id, name),
\* called on its own; the RuntimeError is the AlreadyActive failure
sm_start(folder, session_id, folder_type, project_id) ==
    /\ LET st == start(sessions, folder, session_id, folder_type, project_id, now)
       IN /\ sessions' = IF st.saved THEN st.ss ELSE sessions
          /\ ended' = IF st.raised THEN ended ELSE ended \ {session_id}
          /\ last' = Outcome("start", session_id,
                              IF st.raised THEN "AlreadyActive" ELSE "started")
    /\ UNCHANGED <<log, mappings, config, now, ticks, kimai, inflight>>

\* SessionManager(folder, session_id).update_activity(estimate=estimate),
\* called on its own
sm_update_activity(folder, session_id, estimate) ==
    /\ LET sid == get_session(sessions, folder, session_id)
           r == update_activity(sessions, folder, session_id, estimate, now)
       IN /\ sessions' = IF r.saved THEN r.ss ELSE sessions
          /\ last' = [Outcome("update_activity_sm",
                               IF sid # NoSid THEN sid ELSE session_id,
                               IF sid = NoSid THEN "inactive" ELSE "updated")
                         EXCEPT !.data = [estimate |-> estimate]]
    /\ UNCHANGED <<log, mappings, config, now, ticks, kimai, inflight, ended>>

\* SessionManager(folder, session_id).stop(), called on its own; the
\* RuntimeError is the NoActiveSession failure, data the record returned
sm_stop(folder, session_id) ==
    /\ LET r == stop(sessions, folder, session_id, now)
       IN /\ sessions' = IF r.saved THEN r.ss ELSE sessions
          /\ ended' = IF r.raised THEN ended
                      ELSE ended \cup {get_session(sessions, folder, session_id)}
          /\ last' = IF r.raised
                     THEN Outcome("stop", session_id, "NoActiveSession")
                     ELSE [Outcome("stop", get_session(sessions, folder, session_id),
                                   "stopped") EXCEPT !.data = r.data]
    /\ UNCHANGED <<log, mappings, config, now, ticks, kimai, inflight>>

\* SessionManager(folder, session_id).cancel() with an explicit identifier,
\* called on its own
sm_cancel(folder, session_id) ==
    /\ session_id # NoSid
    /\ LET r == cancel(sessions, folder, session_id)
       IN /\ sessions' = IF r.saved THEN r.ss ELSE sessions
          /\ ended' = IF session_id \in Keys(sessions) THEN ended \cup {session_id}
                      ELSE ended
          /\ last' = Outcome("cancel", session_id,
                              IF session_id \in Keys(sessions) THEN "cancelled" ELSE "none")
    /\ UNCHANGED <<log, mappings, config, now, ticks, kimai, inflight>>

\* the clock advances between invocations
Tick(d) ==
    /\ ticks < MaxTicks
    /\ now' = now + d
    /\ ticks' = ticks + 1
    /\ last' = Idle
    /\ UNCHANGED <<sessions, log, mappings, config, kimai, inflight, ended>>

\* ============================================ consolidation and adjustment
NoDate == -1
One == [num |-> 1, den |-> 1]

\* int(total * (remaining / raw)) is one below the exact quotient: the quotient
\* q = total * remaining / raw is an integer, the double remaining / raw was
\* rounded down from the real quotient (53-bit mantissa m, round half to even,
\* remaining * 2^e = m * raw + D with D > 0), and the real product
\* total * m / 2^e lies more than half a spacing of the doubles below q, so the
\* multiplication rounds to the double under q (11 * (480 / 11) is
\* 479.99999999999994)
FloatDefect(total, remaining, raw) ==
    LET RECURSIVE Pow2(_)
        Pow2(n) == IF n = 0 THEN 1 ELSE 2 * Pow2(n - 1)
        RECURSIVE Pow2Mod(_, _)
        Pow2Mod(n, d) == IF n = 0 THEN 1 % d ELSE (2 * Pow2Mod(n - 1, d)) % d
        \* floor(log2(a / b))
        RECURSIVE FloorLog2(_, _)
        FloorLog2(a, b) == IF a >= 2 * b THEN 1 + FloorLog2(a, 2 * b)
                           ELSE IF a >= b THEN 0
                           ELSE FloorLog2(2 * a, b) - 1
    IN /\ total > 0 /\ remaining > 0 /\ raw > 0
       /\ (total * remaining) % raw = 0
       /\ LET q == (total * remaining) \div raw
              j == FloorLog2(remaining, raw)
              e == 52 - j
              x == ((remaining % (2 * raw)) * Pow2Mod(e, 2 * raw)) % (2 * raw)
              D == x % raw
              down == 2 * D < raw \/ (2 * D = raw /\ x < raw)
              k == FloorLog2(q, 1)
              spacing == IF q > Pow2(k) THEN Pow2(k - j) ELSE Pow2(k - j - 1)
          IN D > 0 /\ down /\ 2 * total * D > raw * spacing

\* the ratio that only ever shrinks a day
calculate_shrink_only(lg, new_minutes, limit, date, expand) ==
    LET already_pushed == get_kimai_pushed_minutes(lg, date)
    IN IF new_minutes > 0 /\ already_pushed + new_minutes > limit
       THEN [num |-> Max(0, limit - already_pushed), den |-> new_minutes]
       ELSE One

\* LocalLogger.calculate_adjustment_ratio; the ratio remaining/new as a fraction
calculate_adjustment_ratio(lg, new_minutes, limit, date, expand) ==
    LET already_pushed == get_kimai_pushed_minutes(lg, date)
        total_if_pushed == already_pushed + new_minutes
        remaining_capacity == Max(0, limit - already_pushed)
    IN IF new_minutes <= 0 THEN One
       ELSE IF total_if_pushed > limit
            THEN [num |-> remaining_capacity, den |-> new_minutes]
            ELSE IF expand /\ total_if_pushed < limit /\ remaining_capacity > 0
                 THEN [num |-> remaining_capacity, den |-> new_minutes]
                 ELSE One

\* ratio != 1.0
NotUnit(ratio) == ratio.num # ratio.den

\* int(total_minutes * ratio)
AdjustedMinutes(total, ratio) ==
    IF FloatDefect(total, ratio.num, ratio.den)
    THEN (total * ratio.num) \div ratio.den - 1
    ELSE (total * ratio.num) \div ratio.den

\* rounding to the nearest multiple of 30 that lets a small value fall to 0
RoundTo30_plain(original) ==
    LET q == original \div RoundStep
        r == original % RoundStep
    IN IF 2 * r < RoundStep THEN q * RoundStep
       ELSE IF 2 * r > RoundStep THEN (q + 1) * RoundStep
       ELSE IF q % 2 = 0 THEN q * RoundStep ELSE (q + 1) * RoundStep

\* round(original / 30) * 30: nearest, ties to the even quotient; 30 at least
\* for a positive original
RoundTo30(original) ==
    LET q == original \div RoundStep
        r == original % RoundStep
        n == IF 2 * r < RoundStep THEN q
             ELSE IF 2 * r > RoundStep THEN q + 1
             ELSE IF q % 2 = 0 THEN q ELSE q + 1
        rounded == n * RoundStep
    IN IF rounded = 0 /\ original > 0 THEN MinRounded ELSE rounded

\* a filter that takes every entry not yet pushed that has a project
Eligible_any(e) == ~e.pushed_to_kimai /\ e.project_id # 0

\* the filter of cmd_push / cmd_summary / fill_empty_weekdays
Eligible(e) == ~e.pushed_to_kimai /\ e.folder_type = "pro" /\ e.project_id # 0

Indices(n) == [i \in 1..n |-> i]

\* to_push, first part: the unpushed pro entries of the log (of one date)
LogItems(lg, date_arg) ==
    LET E == lg.entries
        sel == SelectSeq(Indices(Len(E)),
                   LAMBDA i : (date_arg = NoDate \/ E[i].date = date_arg) /\ Eligible(E[i]))
    IN [k \in 1..Len(sel) |->
          [idx |-> sel[k], sid |-> NoSid, date |-> E[sel[k]].date,
           folder |-> E[sel[k]].folder,
           project_id |-> E[sel[k]].project_id, activity |-> E[sel[k]].activity,
           begin |-> E[sel[k]].begin, end |-> E[sel[k]].end,
           billed_minutes |-> E[sel[k]].billed_minutes]]

\* to_push, second part: one active_entry per open pro session
ActiveItems(ss, cfg, date_arg, t) ==
    LET sel == SelectSeq(ss, LAMBDA s : s.folder_type = "pro" /\ s.project_id # 0
                                  /\ (date_arg = NoDate \/ DateOf(s.begin) = date_arg))
    IN [k \in 1..Len(sel) |->
          [idx |-> 0, sid |-> sel[k].sid, date |-> DateOf(sel[k].begin),
           folder |-> sel[k].folder,
           project_id |-> sel[k].project_id,
           activity |-> IF sel[k].current_activity_estimate # NoLabel
                        THEN sel[k].current_activity_estimate
                        ELSE cfg.default_activity,
           begin |-> sel[k].begin, end |-> t,
           billed_minutes |-> Minutes(sel[k].begin, t)]]

\* a key that leaves the project out
KeyOf_day_activity(it) == <<it.date, 1, it.activity>>

\* key of consolidate_entries
KeyOf(it) == <<it.date, it.project_id, it.activity>>

\* the keys of the groups dict, in insertion order
RECURSIVE GroupKeys(_, _, _)
GroupKeys(items, i, acc) ==
    IF i > Len(items) THEN acc
    ELSE GroupKeys(items, i + 1,
             IF KeyOf(items[i]) \in SeqToSet(acc) THEN acc ELSE Append(acc, KeyOf(items[i])))

RECURSIVE MinOver(_, _)
MinOver(f, S) ==
    LET x == CHOOSE y \in S : TRUE
    IN IF S = {x} THEN f[x]
       ELSE LET m == MinOver(f, S \ {x}) IN IF f[x] < m THEN f[x] ELSE m

RECURSIVE MaxOver(_, _)
MaxOver(f, S) ==
    LET x == CHOOSE y \in S : TRUE
    IN IF S = {x} THEN f[x]
       ELSE LET m == MaxOver(f, S \ {x}) IN IF f[x] > m THEN f[x] ELSE m

\* str comparison of two activity labels
Rank(a) == CHOOSE i \in DOMAIN LabelsSorted : LabelsSorted[i] = a

\* (date, activity) <= (date, activity), the key of consolidated.sort; the
\* comparison of None with a str raises a TypeError; [raised, leq]
SortLeq(g, h) ==
    LET same == g.date = h.date
        raised == same /\ ((g.activity = NoLabel) # (h.activity = NoLabel))
    IN [raised |-> raised,
        leq |-> IF raised THEN FALSE
                ELSE IF ~same THEN g.date < h.date
                ELSE IF g.activity = NoLabel THEN TRUE
                ELSE Rank(g.activity) <= Rank(h.activity)]

\* insert g behind the last element that is <= g (list.sort is stable);
\* [raised, groups]
InsertSorted(sorted, g) ==
    LET G == sorted.groups
        raised == sorted.raised \/ \E i \in DOMAIN G : SortLeq(G[i], g).raised
        P == {i \in DOMAIN G : SortLeq(G[i], g).leq}
        k == IF P = {} THEN 0 ELSE MaxOver([i \in P |-> i], P)
    IN [raised |-> raised,
        groups |-> IF raised THEN G
                   ELSE SubSeq(G, 1, k) \o <<g>> \o SubSeq(G, k + 1, Len(G))]

\* list.sort; [raised, groups], raised when the sort ends in the TypeError
RECURSIVE SortGroups(_, _, _)
SortGroups(groups, i, acc) ==
    IF i > Len(groups) THEN acc
    ELSE SortGroups(groups, i + 1, InsertSorted(acc, groups[i]))

\* total billed minutes of the items of one date (by_date)
DayTotal(items, date) ==
    LET S == {i \in DOMAIN items : items[i].date = date}
    IN SumOver([i \in S |-> items[i].billed_minutes], S)

\* the ratio without the week-end exemption
adjustment_ratio_every_day(lg, items, limit, date) ==
    calculate_adjustment_ratio(lg, DayTotal(items, date), limit, date, TRUE)

\* adjustment_ratios[date] as cmd_push and cmd_summary compute it
adjustment_ratio(lg, items, limit, date) ==
    IF is_weekday(date)
    THEN calculate_adjustment_ratio(lg, DayTotal(items, date), limit, date, TRUE)
    ELSE One

\* nectime.consolidate_entries: groups by (date, project, activity), adjusted by
\* the ratio of their date, sorted by (date, activity); [raised, groups], raised
\* for the TypeError of the sort
consolidate_entries(lg, items, limit) ==
    LET keys == GroupKeys(items, 1, <<>>)
        group(k) ==
            LET M == {i \in DOMAIN items : KeyOf(items[i]) = keys[k]}
                total == SumOver([i \in M |-> items[i].billed_minutes], M)
                ratio == adjustment_ratio(lg, items, limit, keys[k][1])
            IN [date |-> keys[k][1], project_id |-> keys[k][2], activity |-> keys[k][3],
                entries |-> SelectSeq(Indices(Len(items)), LAMBDA i : i \in M),
                total_minutes |-> total,
                first_begin |-> MinOver([i \in M |-> items[i].begin], M),
                last_end |-> MaxOver([i \in M |-> items[i].end], M),
                ratio |-> ratio,
                adjusted_minutes |-> AdjustedMinutes(total, ratio)]
    IN SortGroups([k \in 1..Len(keys) |-> group(k)], 1,
                  [raised |-> FALSE, groups |-> <<>>])

\* the largest group of a date: max(groups, key=rounded_minutes), the first one
Largest(cons, rounded, date) ==
    LET S == {j \in DOMAIN cons : cons[j].date = date}
        top == MaxOver([j \in S |-> rounded[j]], S)
        T == {j \in S : rounded[j] = top}
    IN MinOver([j \in T |-> j], T)

\* the rounding pass of cmd_push: rounded_minutes of every group
RoundingPass(cons, limit) ==
    LET rounded == [j \in DOMAIN cons |-> RoundTo30(cons[j].adjusted_minutes)]
        total_rounded(date) ==
            LET S == {j \in DOMAIN cons : cons[j].date = date}
            IN SumOver([j \in S |-> rounded[j]], S)
    IN [j \in DOMAIN cons |->
          LET date == cons[j].date
              diff == limit - total_rounded(date)
          IN IF is_weekday(date) /\ diff # 0 /\ j = Largest(cons, rounded, date)
             THEN Max(MinRounded, rounded[j] + diff)
             ELSE rounded[j]]

\* ================================================================ backfill
\* the elements of a set of dates in increasing order
RECURSIVE SortedDates(_)
SortedDates(S) ==
    IF S = {} THEN <<>>
    ELSE LET m == MinOver([d \in S |-> d], S) IN <<m>> \o SortedDates(S \ {m})

\* get_weekdays_in_range, as a set
get_weekdays_in_range(start_date, end_date) ==
    {d \in start_date..end_date : is_weekday(d)}

\* a copy that does not take the source's project
FillEntry_unassigned(src, empty_day, source_date) ==
    LET new_begin == empty_day * DaySeconds + ((src.begin % DaySeconds) \div 60) * 60
    IN [date |-> empty_day, folder |-> src.folder, folder_type |-> src.folder_type,
        project_id |-> 0, activity |-> src.activity,
        begin |-> new_begin, end |-> new_begin + (src.end - src.begin),
        billed_minutes |-> src.billed_minutes, real_minutes |-> src.real_minutes,
        pushed_to_kimai |-> FALSE, description |-> "",
        filled_from |-> source_date, adjusted_minutes |-> -1, consolidated_with |-> 0]

\* new_entry of fill_empty_weekdays: the hour and the minute of the source's
\* begin on the empty day (replace(hour, minute) leaves the seconds at 0), the
\* source's duration, no description
FillEntry(src, empty_day, source_date) ==
    LET new_begin == empty_day * DaySeconds + ((src.begin % DaySeconds) \div 60) * 60
    IN [date |-> empty_day, folder |-> src.folder, folder_type |-> src.folder_type,
        project_id |-> src.project_id, activity |-> src.activity,
        begin |-> new_begin, end |-> new_begin + (src.end - src.begin),
        billed_minutes |-> src.billed_minutes, real_minutes |-> src.real_minutes,
        pushed_to_kimai |-> FALSE, description |-> "",
        filled_from |-> source_date, adjusted_minutes |-> -1, consolidated_with |-> 0]

\* the inner loop of fill_empty_weekdays: one copy per source entry
RECURSIVE FillDay(_, _, _, _, _)
FillDay(lg, srcs, empty_day, source_date, k) ==
    IF k > Len(srcs) THEN lg
    ELSE LET e == FillEntry(srcs[k], empty_day, source_date)
         IN FillDay([entries |-> Append(lg.entries, e),
                     daily_totals |-> AddTotals(lg.daily_totals, empty_day,
                                                e.billed_minutes, e.real_minutes)],
                    srcs, empty_day, source_date, k + 1)

\* the outer loop of fill_empty_weekdays
RECURSIVE FillDays(_, _, _, _, _)
FillDays(lg, srcs, empty_days, source_date, n) ==
    IF n > Len(empty_days) THEN lg
    ELSE FillDays(FillDay(lg, srcs, empty_days[n], source_date, 1),
                  srcs, empty_days, source_date, n + 1)

\* the source date of fill_empty_weekdays: the latest date with eligible
\* entries that is not after the first empty day, else the earliest such date
SourceDate(dates, first_empty) ==
    LET prior == {d \in dates : d <= first_empty}
    IN IF prior # {} THEN MaxOver([d \in prior |-> d], prior)
       ELSE MinOver([d \in dates |-> d], dates)

\* LocalLogger.fill_empty_weekdays; the log after the call
fill_empty_weekdays(lg, start_date, end_date) ==
    LET E == lg.entries
        all_entries == SelectSeq(E, Eligible)
        dates == {all_entries[i].date : i \in DOMAIN all_entries}
        empty_days == SortedDates(get_weekdays_in_range(start_date, end_date) \ dates)
    IN IF empty_days = <<>> \/ dates = {} THEN lg
       ELSE LET source_date == SourceDate(dates, empty_days[1])
                srcs == SelectSeq(all_entries, LAMBDA e : e.date = source_date)
            IN FillDays(lg, srcs, empty_days, source_date, 1)

\* ==================================================================== push
\* the dates of by_date, in insertion order
RECURSIVE DatesOf(_, _, _)
DatesOf(items, i, acc) ==
    IF i > Len(items) THEN acc
    ELSE DatesOf(items, i + 1,
             IF items[i].date \in SeqToSet(acc) THEN acc ELSE Append(acc, items[i].date))

\* entry_data of an active session, as logger.add_entry reads it
ActiveData(it) ==
    [begin |-> it.begin, folder |-> it.folder, folder_type |-> "pro",
     project_id |-> it.project_id, activity |-> it.activity,
     current_activity_estimate |-> NoLabel, end |-> it.end,
     billed_minutes |-> it.billed_minutes, real_minutes |-> it.billed_minutes,
     description |-> ""]

\* "Fermer les sessions actives AVANT le push": one add_entry per active session
RECURSIVE CloseActive(_, _, _)
CloseActive(lg, actItems, i) ==
    IF i > Len(actItems) THEN lg
    ELSE CloseActive(add_entry(lg, ActiveData(actItems[i]), FALSE), actItems, i + 1)

RECURSIVE PopAll(_, _)
PopAll(ss, S) ==
    IF S = {} THEN ss
    ELSE LET x == CHOOSE y \in S : TRUE IN PopAll(Pop(ss, x), S \ {x})

\* the log with the entries of group j of cons marked as pushed; the dict an
\* active session was turned into is marked too, but it is not the dict
\* add_entry stored
MarkGroup(lg, items, cons, final, j) ==
    LET M == {items[i].idx : i \in SeqToSet(cons[j].entries)} \ {0}
    IN [lg EXCEPT !.entries =
          [i \in DOMAIN lg.entries |->
              IF i \in M
              THEN [lg.entries[i] EXCEPT
                      !.pushed_to_kimai = TRUE,
                      !.adjusted_minutes = IF NotUnit(cons[j].ratio) THEN final[j] ELSE -1,
                      !.consolidated_with = Len(cons[j].entries)]
              ELSE lg.entries[i]]]

\* the padding timesheets of cmd_push --pad, in the order of the calls: one
\* per date that misses minutes in the log held
PadSheets(lg, cfg, dates, limit, pad) ==
    LET sel == SelectSeq(dates, LAMBDA d : limit - get_kimai_pushed_minutes(lg, d) > 0)
    IN IF pad = 0 \/ ~activity_id(cfg, cfg.pad_activity) \/ cfg.dry_run # "false"
       THEN <<>>
       ELSE [k \in 1..Len(sel) |->
               Timesheet("pad", sel[k], pad, cfg.pad_activity,
                         sel[k] * DaySeconds + 17 * 3600,
                         limit - get_kimai_pushed_minutes(lg, sel[k]))]

PushedIdx(lg) == {i \in DOMAIN lg.entries : lg.entries[i].pushed_to_kimai}

\* what the push reports of its groups; a member is named by the index of its
\* stored log entry and, for a closed session, by the session identifier;
\* rounded30 is rounded_minutes as the first loop of the rounding pass sets it
Report(items, nlog, cons, final, status) ==
    [j \in DOMAIN cons |->
       [date |-> cons[j].date, project_id |-> cons[j].project_id,
        activity |-> cons[j].activity, total_minutes |-> cons[j].total_minutes,
        ratio |-> cons[j].ratio, adjusted_minutes |-> cons[j].adjusted_minutes,
        rounded30 |-> RoundTo30(cons[j].adjusted_minutes),
        first_begin |-> cons[j].first_begin, last_end |-> cons[j].last_end,
        rounded_minutes |-> final[j], status |-> status[j],
        entries |-> [k \in DOMAIN cons[j].entries |->
                       LET i == cons[j].entries[k]
                           nact == Len(SelectSeq(items, LAMBDA x : x.idx = 0))
                       IN [idx |-> IF items[i].idx # 0 THEN items[i].idx
                                   ELSE nlog + (i - (Len(items) - nact)),
                           sid |-> items[i].sid]]]]

\* display_consolidated: the format of a group whose activity is None raises a
\* TypeError
display_consolidated(consolidated) ==
    [raised |-> \E j \in DOMAIN consolidated : consolidated[j].activity = NoLabel]

\* nectime.cmd_push from logger._save() on, once the loop over the groups
\* has ended: the log held (lg) is written and the statuses of the groups are
\* known. The command ends here unless --pad finds a date that misses minutes:
\* it then waits in the first padding call, with the calls to make in todo
push_end(lg, d, others, fill_empty) ==
    LET sheets == PadSheets(lg, d.config, d.dates, d.limit, d.pad)
    IN /\ sheets # <<>> => Len(others) < MaxFlight
       /\ log' = lg
       /\ inflight' = IF sheets = <<>> THEN others
                      ELSE Append(others, Flight("pad", "", NoSid, <<>>, lg,
                                                 [todo |-> sheets], <<>>))
       /\ last' = [Outcome("cmd_push", NoSid, "pushed") EXCEPT
                     !.groups = [j \in DOMAIN d.cons |->
                                   [d.report[j] EXCEPT !.status = d.status[j]]],
                     !.before = d.before,
                     !.data = fill_empty]

\* nectime.cmd_push from "Fermer les sessions actives AVANT le push" on, for
\* a push that holds the registry ss and the log lg in memory while the log
\* file holds `file`: one add_entry per open pro session it listed (each saves
\* the log held), the registry held saved without them. The groups whose
\* activity is unknown are passed over; with a group to submit the command
\* then waits in its first timesheet call, with none it goes on to the save
push_close(ss, lg, file, d, others, fill_empty) ==
    LET sids == {d.actItems[i].sid : i \in DOMAIN d.actItems}
        closed == CloseActive(lg, d.actItems, 1)
        popped == PopAll(ss, sids)
    IN /\ d.actItems # <<>> => Len(closed.entries) <= MaxEntries
       /\ sessions' = IF d.actItems # <<>> THEN popped ELSE sessions
       /\ ended' = ended \cup sids
       /\ kimai' = kimai
       /\ IF d.todo # <<>>
          THEN /\ Len(others) < MaxFlight
               /\ log' = IF d.actItems # <<>> THEN closed ELSE file
               /\ inflight' = Append(others,
                                     Flight("cmd_push", "", NoSid, <<>>, closed, d, <<>>))
               /\ last' = [Outcome("cmd_push", NoSid, "loaded") EXCEPT !.data = fill_empty]
          ELSE push_end(closed, d, others, fill_empty)

\* nectime.cmd_push (bridge kimai) from its reads (configuration, log,
\* registry, clock) up to its first wait; lg is the log the command holds
\* then, fill_empty the range of --fill-empty (<<>> when the option is not
\* given). Nothing to push, a TypeError of the consolidation or of the display
\* and a dry run end the command. Without --yes a push that has groups waits
\* in input() for the confirmation; otherwise it goes on to close the open
\* sessions
push_from(lg, fill_empty, date_arg, force, yes, pad) ==
    /\ config.present
    /\ LET limit == daily_limit(config)
           logItems == LogItems(lg, date_arg)
           actItems == ActiveItems(sessions, config, date_arg, now)
           items == logItems \o actItems
           consolidated == consolidate_entries(lg, items, limit)
           cons == consolidated.groups
           final == RoundingPass(cons, limit)
           is_dry_run == config.dry_run # "false" /\ ~force
           dates == LET ds == DatesOf(items, 1, <<>>)
                    IN IF date_arg # NoDate /\ date_arg \notin SeqToSet(ds)
                       THEN Append(ds, date_arg)
                       ELSE IF ds = <<>> THEN <<DateOf(now)>> ELSE ds
           d == [items |-> items, actItems |-> actItems, cons |-> cons, final |-> final,
                 todo |-> SelectSeq(Indices(Len(cons)),
                                    LAMBDA j : activity_id(config, cons[j].activity)),
                 status |-> [j \in DOMAIN cons |-> "skipped"],
                 dates |-> dates, pad |-> pad, limit |-> limit, config |-> config,
                 report |-> Report(items, Len(lg.entries), cons, final,
                                   [j \in DOMAIN cons |-> "ok"]),
                 before |-> PushedIdx(lg)]
           out(result) == [Outcome("cmd_push", NoSid, result) EXCEPT !.data = fill_empty]
       IN IF items = <<>> /\ pad = 0 /\ fill_empty = <<>>
          THEN /\ last' = out("nothing")
               /\ log' = lg
               /\ UNCHANGED <<sessions, ended, inflight, kimai>>
          ELSE IF consolidated.raised \/ display_consolidated(cons).raised
          THEN /\ last' = out("TypeError")
               /\ log' = lg
               /\ UNCHANGED <<sessions, ended, inflight, kimai>>
          ELSE IF is_dry_run
          THEN /\ last' = [out("dry_run") EXCEPT
                              !.groups = Report(items, Len(lg.entries), cons, final,
                                                [j \in DOMAIN cons |-> "dry_run"]),
                              !.before = PushedIdx(lg)]
               /\ log' = lg
               /\ UNCHANGED <<sessions, ended, inflight, kimai>>
          ELSE IF cons # <<>> /\ ~yes
          THEN /\ Len(inflight) < MaxFlight
               /\ inflight' = Append(inflight,
                                     Flight("input", "", NoSid, sessions, lg, d, <<>>))
               /\ last' = out("asked")
               /\ log' = lg
               /\ UNCHANGED <<sessions, ended, kimai>>
          ELSE push_close(sessions, lg, lg, d, inflight, fill_empty)
    /\ UNCHANGED <<mappings, config, now, ticks>>

\* nectime.cmd_push without --fill-empty
cmd_push(date_arg, force, yes, pad) ==
    push_from(log, <<>>, date_arg, force, yes, pad)

\* the answer to "Confirmer le push? (y/N)", compared in lower case: anything
\* but y or Y ends the command with nothing written; y lets it go on with the
\* registry and the log it read before the question
cmd_push_input(answer) ==
    /\ \E k \in Flights("input") :
          IF answer \notin {"y", "Y"}
          THEN /\ inflight' = Landed(k)
               /\ last' = Outcome("cmd_push", NoSid, "cancelled")
               /\ UNCHANGED <<sessions, log, kimai, ended>>
          ELSE push_close(inflight[k].ss, inflight[k].log, log, inflight[k].data,
                          Landed(k), <<>>)
    /\ UNCHANGED <<mappings, config, now, ticks>>

\* nectime.cmd_push when the timesheet call it waits in returns; outcome is
\* the external service's answer for the group at the head of todo. A success
\* marks the entries of the group in the log held since the start, an
\* exception is caught. The command then waits in the call of the next group
\* with a known activity; after the last one it goes on to the save
cmd_push_post(outcome) ==
    /\ \E k \in Flights("cmd_push") :
          LET f == inflight[k]
              d == f.data
              j == Head(d.todo)
              ok == outcome = "ok"
              held == IF ok THEN MarkGroup(f.log, d.items, d.cons, d.final, j) ELSE f.log
              nd == [d EXCEPT !.todo = Tail(@),
                              !.status[j] = IF ok THEN "ok" ELSE "failed"]
          IN /\ ok => Len(kimai) < MaxTimesheets
             /\ kimai' = IF ok
                         THEN Append(kimai, Timesheet("push", d.cons[j].date,
                                        d.cons[j].project_id, d.cons[j].activity,
                                        d.cons[j].first_begin, d.final[j]))
                         ELSE kimai
             /\ IF nd.todo # <<>>
                THEN /\ inflight' = [inflight EXCEPT ![k] = [f EXCEPT !.log = held,
                                                                      !.data = nd]]
                     /\ last' = Outcome("cmd_push", NoSid, "posted")
                     /\ log' = log
                ELSE push_end(held, nd, Landed(k), <<>>)
    /\ UNCHANGED <<sessions, mappings, config, now, ticks, ended>>

\* nectime.cmd_push --pad when the padding call it waits in returns; an
\* exception is caught. The command then waits in the call of the next date
\* that misses minutes, or ends; the log is not written again
cmd_push_pad(outcome) ==
    /\ \E k \in Flights("pad") :
          LET todo == inflight[k].data.todo
          IN /\ outcome = "ok" => Len(kimai) < MaxTimesheets
             /\ kimai' = IF outcome = "ok" THEN Append(kimai, Head(todo)) ELSE kimai
             /\ inflight' = IF Tail(todo) = <<>> THEN Landed(k)
                            ELSE [inflight EXCEPT ![k].data.todo = Tail(todo)]
             /\ last' = Outcome("cmd_push", NoSid,
                                IF outcome = "ok" THEN "padded" ELSE "pad_error")
    /\ UNCHANGED <<sessions, log, mappings, config, now, ticks, ended>>

\* LocalLogger.add_entry called with a finalized pro session that began at
\* 09:00 of `date`, billed `minutes` minutes and was active for `real` of them
AddEntry(date, minutes, real, activity) ==
    /\ Len(log.entries) < MaxLogged
    /\ LET begin == date * DaySeconds + T0
           sd == [begin |-> begin, folder |-> "fA", folder_type |-> "pro",
                  project_id |-> 1, activity |-> activity,
                  current_activity_estimate |-> NoLabel,
                  end |-> begin + minutes * 60,
                  billed_minutes |-> minutes, real_minutes |-> real,
                  description |-> ""]
       IN log' = add_entry(log, sd, FALSE)
    /\ last' = Outcome("add_entry", NoSid, "added")
    /\ UNCHANGED <<sessions, mappings, config, now, ticks, kimai, inflight, ended>>

\* LocalLogger.add_entry called with a finalized session that began `offset`
\* seconds into `date`, lasted `minutes` minutes and `secs` seconds and was
\* active for `real` minutes
AddEntryAt(date, offset, minutes, secs, real, activity, project_id) ==
    /\ Len(log.entries) < MaxLogged
    /\ LET begin == date * DaySeconds + offset
           sd == [begin |-> begin, folder |-> "fA", folder_type |-> "pro",
                  project_id |-> project_id, activity |-> activity,
                  current_activity_estimate |-> NoLabel,
                  end |-> begin + minutes * 60 + secs,
                  billed_minutes |-> minutes, real_minutes |-> real,
                  description |-> ""]
       IN log' = add_entry(log, sd, FALSE)
    /\ last' = Outcome("add_entry", NoSid, "added")
    /\ UNCHANGED <<sessions, mappings, config, now, ticks, kimai, inflight, ended>>

\* nectime.cmd_push --fill-empty start:end
cmd_push_fill(start_date, end_date, date_arg, force, yes, pad) ==
    /\ Len(fill_empty_weekdays(log, start_date, end_date).entries) <= MaxFilled
    /\ LET filled == fill_empty_weekdays(log, start_date, end_date)
           created == Len(filled.entries) - Len(log.entries)
       IN push_from(filled, <<start_date, end_date, created>>, date_arg, force, yes, pad)

\* nectime.cmd_summary: the consolidated groups with their adjusted minutes;
\* nothing is rounded and nothing is written
cmd_summary(date_arg) ==
    /\ config.present
    /\ LET limit == daily_limit(config)
           items == LogItems(log, date_arg) \o ActiveItems(sessions, config, date_arg, now)
           consolidated == consolidate_entries(log, items, limit)
           cons == consolidated.groups
       IN last' = IF items = <<>>
                  THEN Outcome("cmd_summary", NoSid, "nothing")
                  ELSE IF consolidated.raised \/ display_consolidated(cons).raised
                  THEN Outcome("cmd_summary", NoSid, "TypeError")
                  ELSE [Outcome("cmd_summary", NoSid, "shown") EXCEPT
                          !.data = [date_arg |-> date_arg],
                          !.groups = Report(items, Len(log.entries), cons,
                                            [j \in DOMAIN cons |-> -1],
                                            [j \in DOMAIN cons |-> "shown"]),
                          !.before = PushedIdx(log)]
    /\ UNCHANGED <<sessions, log, mappings, config, now, ticks, kimai, inflight, ended>>

\* the entries that cmd_edit and cmd_describe offer: those not yet pushed
Unpushed(lg) == SelectSeq(Indices(Len(lg.entries)), LAMBDA i : ~lg.entries[i].pushed_to_kimai)

\* nectime.cmd_edit index --activity key (index counts from 0)
cmd_edit(index, activity) ==
    /\ config.present
    /\ activity # NoLabel
    /\ LET unpushed == Unpushed(log)
       IN IF unpushed = <<>>
          THEN /\ last' = Outcome("cmd_edit", NoSid, "none")
               /\ UNCHANGED log
          ELSE IF index < 0 \/ index >= Len(unpushed)
          THEN /\ last' = Outcome("cmd_edit", NoSid, "invalid")
               /\ UNCHANGED log
          ELSE IF activity \notin config.activity_mappings
          THEN /\ last' = Outcome("cmd_edit", NoSid, "unknown")
               /\ UNCHANGED log
          ELSE /\ log' = [log EXCEPT !.entries[unpushed[index + 1]].activity = activity]
               /\ last' = Outcome("cmd_edit", NoSid, "edited")
    /\ UNCHANGED <<sessions, mappings, config, now, ticks, kimai, inflight, ended>>

\* nectime.cmd_describe with a text; index is -1 when none is given and the
\* text goes to the session the identifier-less manager resolves
cmd_describe(folder, index, text) ==
    /\ text # ""
    /\ IF index # -1
       THEN LET unpushed == Unpushed(log)
            IN /\ IF index < 0 \/ index >= Len(unpushed)
                  THEN /\ last' = Outcome("cmd_describe", NoSid, "invalid")
                       /\ UNCHANGED log
                  ELSE /\ log' = [log EXCEPT
                                    !.entries[unpushed[index + 1]].description = text]
                       /\ last' = Outcome("cmd_describe", NoSid, "entry")
               /\ UNCHANGED sessions
       ELSE LET sid == get_session(sessions, folder, NoSid)
            IN /\ IF sid = NoSid
                  THEN /\ last' = Outcome("cmd_describe", NoSid, "inactive")
                       /\ UNCHANGED sessions
                  ELSE /\ sessions' = set_session(sessions, folder, NoSid,
                                          [Get(sessions, sid) EXCEPT !.description = text]).ss
                       /\ last' = Outcome("cmd_describe", sid, "session")
               /\ UNCHANGED log
    /\ UNCHANGED <<mappings, config, now, ticks, kimai, inflight, ended>>

\* LocalLogger.calculate_adjustment_ratio called on the stored log
ratio_of(new_minutes, limit, date, expand) ==
    /\ last' = [Outcome("calculate_adjustment_ratio", NoSid, "ratio") EXCEPT
                   !.data = [new_minutes |-> new_minutes, limit |-> limit, date |-> date,
                             expand |-> expand,
                             ratio |-> calculate_adjustment_ratio(log, new_minutes, limit,
                                                                  date, expand)]]
    /\ UNCHANGED <<sessions, log, mappings, config, now, ticks, kimai, inflight, ended>>

\* nectime.cmd_cleanup killed inside cleanup_old_sessions, after the first n
\* sessions of the registry were examined: add_entry has saved the log for each
\* orphan among them, _save_all has not run
cmd_cleanup_killed(n) ==
    /\ config.present
    /\ n \in 1..Len(sessions)
    /\ LET cl == cleanup_old_sessions(SubSeq(sessions, 1, n), log, config, now,
                                      DefaultMaxHours)
       IN /\ cl.closed # <<>>
          /\ Len(cl.log.entries) <= MaxEntries
          /\ log' = cl.log
          /\ last' = Outcome("cmd_cleanup", NoSid, "killed")
    /\ UNCHANGED <<sessions, mappings, config, now, ticks, kimai, inflight, ended>>

\* ------------------------------------------------------------ folder mapping
\* set_folder_mapping: the folder's mapping is replaced; the former custom
\* activity is kept when none is given
set_folder_mapping(mp, folder, folder_type, project_id, custom_activity) ==
    [mp EXCEPT ![folder] =
        [present |-> TRUE, folder_type |-> folder_type, project_id |-> project_id,
         custom_activity |-> IF custom_activity # NoLabel THEN custom_activity
                             ELSE IF mp[folder].present THEN mp[folder].custom_activity
                             ELSE NoLabel]]

\* cmd_set: `nectime set <type> [project_id] [--activity a]` up to the lookup
\* of the project's name (get_projects, a GET, for a pro folder with a project):
\* the manager was built (sessions.json read). The other types run to the end:
\* the mapping is written, then every open session of the folder is
\* reclassified and the registry saved
cmd_set(folder, folder_type, project_id, custom_activity) ==
    /\ config.present
    /\ LET invalid == custom_activity # NoLabel /\ folder_type = "pro"
                      /\ custom_activity \notin config.activity_mappings
           looks_up == folder_type = "pro" /\ project_id # 0
           final_custom == IF folder_type = "perso" THEN custom_activity ELSE NoLabel
           upd(s) == IF s.folder # folder THEN s
                     ELSE [s EXCEPT !.folder_type = folder_type,
                                    !.project_id = project_id,
                                    !.current_activity_estimate =
                                        IF final_custom # NoLabel THEN final_custom ELSE @]
       IN IF invalid
          THEN /\ last' = Outcome("cmd_set", NoSid, "invalid")
               /\ UNCHANGED <<sessions, mappings, inflight>>
          ELSE IF looks_up
          THEN /\ Len(inflight) < MaxFlight
               /\ inflight' = Append(inflight,
                      Flight("cmd_set", folder, NoSid, sessions, EmptyLog,
                             [folder_type |-> folder_type, project_id |-> project_id],
                             <<>>))
               /\ last' = Outcome("cmd_set", NoSid, "loaded")
               /\ UNCHANGED <<sessions, mappings>>
          ELSE /\ mappings' = set_folder_mapping(mappings, folder, folder_type,
                                                 project_id, final_custom)
               /\ sessions' = [i \in DOMAIN sessions |-> upd(sessions[i])]
               /\ last' = Outcome("cmd_set", NoSid,
                             IF get_folder_sessions(sessions, folder) # {}
                             THEN "updated" ELSE "saved")
               /\ UNCHANGED inflight
    /\ UNCHANGED <<log, config, now, ticks, kimai, ended>>

\* cmd_set of a pro folder with a project, after the lookup of the project's
\* name: the mapping file is read and written; the sessions of the folder in
\* the registry read before the lookup are reclassified and, when there is one,
\* that registry is written
cmd_set_save ==
    \E k \in Flights("cmd_set") :
        LET f == inflight[k]
            upd(s) == IF s.folder # f.cwd THEN s
                      ELSE [s EXCEPT !.folder_type = f.data.folder_type,
                                     !.project_id = f.data.project_id]
            found == get_folder_sessions(f.ss, f.cwd) # {}
        IN /\ mappings' = set_folder_mapping(mappings, f.cwd, f.data.folder_type,
                                             f.data.project_id, NoLabel)
           /\ sessions' = IF found THEN [i \in DOMAIN f.ss |-> upd(f.ss[i])] ELSE sessions
           /\ inflight' = Landed(k)
           /\ last' = Outcome("cmd_set", NoSid, IF found THEN "updated" ELSE "saved")
           /\ UNCHANGED <<log, config, now, ticks, kimai, ended>>

\* =========================================================== specifications
\* a command, a hook or a method is invoked: one more invocation of the
\* behaviour. The steps in which an invocation that waited goes on, and the
\* clock, leave the count as it is
NewCall == invoked < MaxCalls /\ invoked' = invoked + 1

Mapping(present, folder_type, project_id) ==
    [present |-> present, folder_type |-> folder_type, project_id |-> project_id,
     custom_activity |-> NoLabel]

InitMappings == [f \in Folders \cup {"fA/sub"} |->
                    IF f = "fA" THEN Mapping(TRUE, "pro", 1) ELSE Mapping(FALSE, "", 0)]

Config(dry_run, hours) ==
    [present |-> TRUE, dry_run |-> dry_run, daily_limit_hours |-> hours,
     default_activity |-> "dev_applicatif",
     activity_mappings |-> {"dev_applicatif", "reunion"},
     pad_activity |-> "reunion",
     auto_enabled |-> TRUE, auto_interval |-> DefaultInterval, auto_ask |-> FALSE]

HookCalls == {<<"fA", "s1">>, <<"fA", "s2">>, <<"fB", "s2">>}
SameFolder == {<<"fA", "s1">>, <<"fA", "s2">>}
EntryInputs == {<<0, 20, 15, "dev_applicatif">>, <<0, 20, 20, "reunion">>,
                <<0, 20, 10, "veille">>, <<0, 600, 600, "dev_applicatif">>,
                <<1, 20, 20, "dev_applicatif">>, <<1, 75, 60, "reunion">>}

InitState ==
    /\ sessions = <<>>
    /\ log = EmptyLog
    /\ mappings = InitMappings
    /\ now = T0
    /\ ticks = 0
    /\ kimai = <<>>
    /\ inflight = <<>>
    /\ invoked = 0
    /\ ended = {}
    /\ last = Idle

\* ---- the manager's start, from hooks (explicit identifier) and from the CLI
Init ==
    /\ InitState
    /\ config \in {Config(d, DefaultLimitHours) : d \in {"false", "absent"}}

InitOne ==
    /\ InitState
    /\ config = Config("false", DefaultLimitHours)

NextStart ==
    \/ NewCall /\ \E f \in Folders, sid \in SIDs \cup {NoSid}, ty \in {"pro", "perso"} :
           sm_start(f, sid, ty, IF ty = "pro" THEN 1 ELSE 0)
    \/ NewCall /\ \E f \in Folders \cup {"fA/sub"}, ty \in {"", "perso"} :
           cmd_start(f, ty, 0)
    \/ UNCHANGED invoked /\ \E o \in {"ok", "fail"} : cmd_start_save(o)
    \/ NewCall /\ \E f \in Folders, a \in {"reunion", "veille"} : cmd_activity(f, a)
    \/ NewCall /\ \E f \in Folders : cmd_cancel(f)
    \/ UNCHANGED invoked /\ \E d \in TickSteps : Tick(d)

SpecStart == InitOne /\ [][NextStart]_vars

\* ---- session lifecycle: hooks, CLI start / stop / cancel
Next ==
    \/ NewCall /\ \E c \in HookCalls : start_session(c[1], c[2])
    \/ UNCHANGED invoked /\ start_session_save
    \/ NewCall /\ \E c \in HookCalls : stop_session(c[1], c[2])
    \/ UNCHANGED invoked /\ stop_session_save
    \/ NewCall /\ \E f \in Folders, ty \in {"", "perso"} : cmd_start(f, ty, 0)
    \/ UNCHANGED invoked /\ \E o \in {"ok", "fail"} : cmd_start_save(o)
    \/ NewCall /\ \E f \in Folders, a \in {NoLabel, "veille"} : cmd_stop(f, a)
    \/ UNCHANGED invoked /\ \E o \in {"ok", "fail"} : cmd_stop_save(o)
    \/ NewCall /\ \E f \in Folders : cmd_cancel(f)
    \/ UNCHANGED invoked /\ \E d \in TickSteps : Tick(d)

Spec == Init /\ [][Next]_vars

\* ---- concurrent hook invocations on one folder: an activity update loads the
\* registry, other invocations run, then the update saves what it loaded
NextRace ==
    \/ NewCall /\ \E c \in SameFolder : start_session(c[1], c[2])
    \/ NewCall /\ \E c \in SameFolder : stop_session(c[1], c[2])
    \/ UNCHANGED invoked /\ stop_session_save
    \/ NewCall /\ update_activity_load("fA", "s2")
    \/ UNCHANGED invoked /\ \E est \in {NoLabel, "reunion"} :
           update_activity_save(TRUE, est)
    \/ NewCall /\ cmd_cancel("fA")
    \/ UNCHANGED invoked /\ \E d \in TickSteps : Tick(d)

SpecRace == InitOne /\ [][NextRace]_vars

\* ---- push with sessions still open, confirmed on the command line or at the
\* prompt, while the hooks start and end sessions
NextClose ==
    \/ NewCall /\ \E c \in SameFolder : start_session(c[1], c[2])
    \/ NewCall /\ \E c \in SameFolder : stop_session(c[1], c[2])
    \/ UNCHANGED invoked /\ stop_session_save
    \/ NewCall /\ \E a \in {"reunion", "veille"} : cmd_activity("fA", a)
    \/ NewCall /\ \E yes \in BOOLEAN : cmd_push(NoDate, FALSE, yes, 0)
    \/ UNCHANGED invoked /\ \E answer \in {"y", "Y", "n", ""} : cmd_push_input(answer)
    \/ UNCHANGED invoked /\ \E o \in {"ok", "fail"} : cmd_push_post(o)
    \/ UNCHANGED invoked /\ Tick(ShortStep)

SpecClose == InitOne /\ [][NextClose]_vars

\* ---- the registry methods called on their own, next to the activity hook and
\* a local log that is not empty
NextSession ==
    \/ NewCall /\ \E c \in HookCalls : sm_start(c[1], c[2], "pro", 1)
    \/ NewCall /\ \E c \in HookCalls \cup {<<"fA", NoSid>>}, est \in {NoLabel, "reunion"} :
           sm_update_activity(c[1], c[2], est)
    \/ NewCall /\ \E c \in HookCalls \cup {<<"fA", NoSid>>} : sm_stop(c[1], c[2])
    \/ NewCall /\ \E c \in HookCalls : sm_cancel(c[1], c[2])
    \/ NewCall /\ \E f \in Folders : cmd_cancel(f)
    \/ NewCall /\ \E c \in SameFolder, est \in {NoLabel, "veille"} :
           hook_update_activity(c[1], c[2], TRUE, est)
    \/ NewCall /\ AddEntry(0, 20, 15, "dev_applicatif")
    \/ UNCHANGED invoked /\ Tick(ShortStep)

SpecSession == InitOne /\ [][NextSession]_vars

\* ---- orphan reclamation: sessions of several ages, before and after midnight
OrphanSteps == {3 * 60 * 60 + 90, 12 * 60 * 60, 13 * 60 * 60}

InitOrphan ==
    /\ InitState
    /\ config \in {[Config("false", DefaultLimitHours) EXCEPT !.default_activity = a] :
           a \in {NoLabel, "veille"}}

NextOrphan ==
    \/ NewCall /\ \E c \in SameFolder : sm_start(c[1], c[2], "pro", 1)
    \/ NewCall /\ start_session("fA", "s1")
    \/ NewCall /\ \E c \in SameFolder, est \in {NoLabel, "reunion"} :
           sm_update_activity(c[1], c[2], est)
    \/ NewCall /\ cmd_cleanup
    \/ UNCHANGED invoked /\ \E d \in OrphanSteps : Tick(d)

SpecOrphan == InitOrphan /\ [][NextOrphan]_vars

\* ---- orphan reclamation that may be killed between the write of the local
\* log and the write of the registry; one session per folder
NextCrash ==
    \/ NewCall /\ \E c \in {<<"fA", "s1">>, <<"fB", "s2">>} : sm_start(c[1], c[2], "pro", 1)
    \/ NewCall /\ sm_update_activity("fA", "s1", "reunion")
    \/ NewCall /\ cmd_cleanup
    \/ NewCall /\ \E n \in 1..2 : cmd_cleanup_killed(n)
    \/ UNCHANGED invoked /\ \E d \in {ShortStep, 13 * 60 * 60} : Tick(d)

SpecCrash == InitOne /\ [][NextCrash]_vars

\* ---- the CLI commands of folder fA, whose manager has no identifier, next to
\* sessions the hooks opened with identifiers
NextImplicit ==
    \/ NewCall /\ \E c \in HookCalls : sm_start(c[1], c[2], "pro", 1)
    \/ NewCall /\ cmd_stop("fA", NoLabel)
    \/ UNCHANGED invoked /\ cmd_stop_save("ok")
    \/ NewCall /\ cmd_cancel("fA")
    \/ NewCall /\ cmd_activity("fA", "reunion")
    \/ NewCall /\ cmd_describe("fA", -1, "note")
    \/ UNCHANGED invoked /\ Tick(ShortStep)

SpecImplicit == InitOne /\ [][NextImplicit]_vars

\* ---- backfill: entries of a Friday (09:21:30 and 09:00) and a Tuesday, one of
\* them without a project; ranges Monday..Wednesday and Friday..Wednesday;
\* the push that follows the fill is declined, a later push is confirmed
FillInputs == {<<0, T0 + ShortStep, 20, 0, 15, "dev_applicatif", 1>>,
               <<0, T0, 20, 0, 20, "reunion", 0>>,
               <<4, T0, 600, 0, 480, "dev_applicatif", 1>>}
FillRanges == {<<3, 5>>, <<0, 5>>}

NextFill ==
    \/ NewCall /\ \E x \in FillInputs :
           AddEntryAt(x[1], x[2], x[3], x[4], x[5], x[6], x[7])
    \/ NewCall /\ \E r \in FillRanges :
           cmd_push_fill(r[1], r[2], NoDate, FALSE, FALSE, 0)
    \/ UNCHANGED invoked /\ cmd_push_input("n")
    \/ NewCall /\ cmd_push(NoDate, FALSE, TRUE, 0)
    \/ UNCHANGED invoked /\ \E o \in {"ok", "fail"} : cmd_push_post(o)
    \/ NewCall /\ cmd_edit(0, "reunion")
    \/ NewCall /\ cmd_describe("fA", 0, "note")

SpecFill == InitOne /\ [][NextFill]_vars

\* ---- consolidation: entries of 200 and 600 minutes on a Friday and a Monday,
\* with several start times, projects and activities; summary, push and the
\* ratio asked for directly
GroupInputs == {<<0, T0, 600, 0, 540, "dev_applicatif", 1>>,
                <<0, T0 - 3600, 200, 30, 200, "dev_applicatif", 1>>,
                <<0, T0 + 3600, 200, 0, 150, "reunion", 1>>,
                <<0, T0, 200, 0, 200, "dev_applicatif", 2>>,
                <<3, T0, 200, 0, 180, "dev_applicatif", 1>>}

NextGroup ==
    \/ NewCall /\ \E x \in GroupInputs :
           AddEntryAt(x[1], x[2], x[3], x[4], x[5], x[6], x[7])
    \/ NewCall /\ \E d \in {NoDate, 0} : cmd_summary(d)
    \/ NewCall /\ \E d \in {NoDate, 0} : cmd_push(d, FALSE, TRUE, 0)
    \/ UNCHANGED invoked /\ \E o \in {"ok", "fail"} : cmd_push_post(o)
    \/ NewCall /\ \E m \in {0, 200, 280, 600}, e \in BOOLEAN :
           ratio_of(m, daily_limit(config), 0, e)

SpecGroup == InitOne /\ [][NextGroup]_vars

\* ---- classifications: set, start, activity, stop, reclamation and push
NextClass ==
    \/ NewCall /\ \E c \in {<<"perso", 1>>, <<"pending", 0>>, <<"off", 0>>, <<"pro", 1>>} :
           cmd_set("fA", c[1], c[2], NoLabel)
    \/ UNCHANGED invoked /\ cmd_set_save
    \/ NewCall /\ \E cwd \in {"fA", "fA/sub"} : start_session(cwd, "s1")
    \/ NewCall /\ cmd_start("fA", "", 1)
    \/ NewCall /\ cmd_stop("fA", NoLabel)
    \/ UNCHANGED invoked /\ cmd_stop_save("ok")
    \/ NewCall /\ stop_session("fA", "s1")
    \/ UNCHANGED invoked /\ stop_session_save
    \/ NewCall /\ cmd_push(NoDate, FALSE, TRUE, 0)
    \/ UNCHANGED invoked /\ \E o \in {"ok", "fail"} : cmd_push_post(o)
    \/ UNCHANGED invoked /\ Tick(ShortStep)

SpecClass == InitOne /\ [][NextClass]_vars

\* ---- one open session: the split hook update against the CLI commands
NextAccum ==
    \/ NewCall /\ start_session("fA", "s1")
    \/ NewCall /\ update_activity_load("fA", "s1")
    \/ UNCHANGED invoked /\ \E est \in {NoLabel, "veille"} : update_activity_save(TRUE, est)
    \/ NewCall /\ cmd_activity("fA", "reunion")
    \/ NewCall /\ cmd_describe("fA", -1, "note")
    \/ NewCall /\ cmd_set("fA", "perso", 0, "veille")
    \/ UNCHANGED invoked /\ Tick(ShortStep)

SpecAccum == InitOne /\ [][NextAccum]_vars

\* ---- every command that reads the configuration, with and without one; the
\* file is deleted and written again between the invocations
ConfigCommands == {"cmd_start", "cmd_stop", "cmd_push", "cmd_summary", "cmd_set",
                   "cmd_cleanup", "cmd_edit", "cmd_activity"}
\* config.json is deleted between two invocations
config_removed ==
    /\ config.present
    /\ config' = [config EXCEPT !.present = FALSE]
    /\ last' = Idle
    /\ UNCHANGED <<sessions, log, mappings, now, ticks, kimai, inflight, ended>>

\* nectime.save_config: config.json is written with the configuration given
save_config(cfg) ==
    /\ config' = cfg
    /\ last' = Outcome("save_config", NoSid, "saved")
    /\ UNCHANGED <<sessions, log, mappings, now, ticks, kimai, inflight, ended>>

NextNoConfig ==
    \/ UNCHANGED invoked /\ config_removed
    \/ NewCall /\ \E d \in {"false", "true"} : save_config(Config(d, DefaultLimitHours))
    \/ NewCall /\ \E op \in ConfigCommands : load_config_exit(op, NoSid, <<>>)
    \/ NewCall /\ \E e \in {"SessionStart", "SessionEnd", "UserPromptSubmit"} :
               main(HookInput(e, "startup", "fA", "s1"), NoLabel)
    \/ UNCHANGED invoked /\ stop_session_save
    \/ NewCall /\ cmd_start("fA", "", 1)
    \/ NewCall /\ cmd_stop("fA", NoLabel)
    \/ UNCHANGED invoked /\ cmd_stop_save("ok")
    \/ NewCall /\ cmd_push(NoDate, FALSE, TRUE, 0)
    \/ UNCHANGED invoked /\ \E o \in {"ok", "fail"} : cmd_push_post(o)
    \/ NewCall /\ cmd_summary(NoDate)
    \/ NewCall /\ cmd_set("fA", "perso", 0, NoLabel)
    \/ NewCall /\ cmd_cleanup
    \/ NewCall /\ cmd_edit(0, "reunion")
    \/ NewCall /\ cmd_activity("fA", "reunion")
    \/ NewCall /\ cmd_cancel("fA")
    \/ NewCall /\ cmd_describe("fA", 0, "note")

SpecNoConfig == InitOne /\ [][NextNoConfig]_vars

\* ---- the hook's entry point: events with and without identifier, every source
HookInputs ==
    {HookInput("SessionStart", src, "fA", sid) :
        src \in {"startup"} \cup SkippedSources, sid \in {NoSid, "s1"}}
    \cup {HookInput(e, "", "fA", sid) : e \in {"SessionEnd", "UserPromptSubmit", "Stop"},
                                        sid \in {NoSid, "s1"}}
NextHook ==
    \/ NewCall /\ \E in \in HookInputs : main(in, "reunion")
    \/ UNCHANGED invoked /\ stop_session_save
    \/ UNCHANGED invoked /\ \E d \in TickSteps : Tick(d)

SpecHook == InitOne /\ [][NextHook]_vars

\* ---- the SessionEnd hook, which waits for git between its read of the log
\* and its write, against a push with and without --pad
NextLogRace ==
    \/ NewCall /\ start_session("fA", "s1")
    \/ NewCall /\ stop_session("fA", "s1")
    \/ UNCHANGED invoked /\ stop_session_save
    \/ NewCall /\ \E pad \in {0, 1} : cmd_push(NoDate, FALSE, TRUE, pad)
    \/ UNCHANGED invoked /\ \E o \in {"ok", "fail"} : cmd_push_post(o)
    \/ UNCHANGED invoked /\ \E o \in {"ok", "fail"} : cmd_push_pad(o)
    \/ UNCHANGED invoked /\ Tick(ShortStep)

SpecLogRace == InitOne /\ [][NextLogRace]_vars

\* ---- pushes under dry_run true, with every optional argument, with and
\* without a default activity in the configuration
InitDry ==
    /\ InitState
    /\ config \in {[Config("true", DefaultLimitHours) EXCEPT !.default_activity = a] :
           a \in {NoLabel, "dev_applicatif"}}
NextDry ==
    \/ NewCall /\ \E e \in FillInputs : AddEntryAt(e[1], e[2], e[3], e[4], e[5], e[6], e[7])
    \/ NewCall /\ start_session("fA", "s1")
    \/ NewCall /\ \E r \in FillRanges, d \in {NoDate, 0}, pad \in {0, 1} :
           cmd_push_fill(r[1], r[2], d, FALSE, TRUE, pad)
    \/ NewCall /\ \E d \in {NoDate, 0}, pad \in {0, 1} : cmd_push(d, FALSE, TRUE, pad)
    \/ UNCHANGED invoked /\ Tick(ShortStep)

SpecDry == InitDry /\ [][NextDry]_vars

\* ---- backfills repeated over the same short range
NextRefill ==
    \/ NewCall /\ \E x \in FillInputs :
           AddEntryAt(x[1], x[2], x[3], x[4], x[5], x[6], x[7])
    \/ NewCall /\ \E r \in {<<3, 3>>, <<3, 4>>} :
           cmd_push_fill(r[1], r[2], NoDate, FALSE, FALSE, 0)
    \/ UNCHANGED invoked /\ \E answer \in {"y", "n"} : cmd_push_input(answer)
    \/ NewCall /\ cmd_push(NoDate, FALSE, TRUE, 0)
    \/ UNCHANGED invoked /\ \E o \in {"ok", "fail"} : cmd_push_post(o)

SpecRefill == InitOne /\ [][NextRefill]_vars

\* ---- the summary of sessions that are still open, with and without a
\* default activity in the configuration
NextSummary ==
    \/ NewCall /\ \E c \in SameFolder : start_session(c[1], c[2])
    \/ NewCall /\ cmd_activity("fA", "reunion")
    \/ NewCall /\ cmd_summary(NoDate)
    \/ UNCHANGED invoked /\ Tick(ShortStep)

SpecSummary == InitOrphan /\ [][NextSummary]_vars

\* ---- push of a log that is fed directly; every push is confirmed and real
InitPush ==
    /\ InitState
    /\ config \in {Config("false", h) : h \in {1, 8}}

NextPush ==
    \/ NewCall /\ \E x \in EntryInputs : AddEntry(x[1], x[2], x[3], x[4])
    \/ NewCall /\ \E date \in {NoDate, 0, 1} : cmd_push(date, FALSE, TRUE, 0)
    \/ UNCHANGED invoked /\ \E o \in {"ok", "fail"} : cmd_push_post(o)

SpecPush == InitPush /\ [][NextPush]_vars

\* ================================================================== claims
\* a push that went through to the external service has just ended
PushDone == last.op = "cmd_push" /\ last.result = "pushed"
GroupIds == DOMAIN last.groups
GroupsOn(date) == {j \in GroupIds : last.groups[j].date = date}
GroupDates == {last.groups[j].date : j \in GroupIds}
Succeeded == {j \in GroupIds : last.groups[j].status = "ok"}
Unmapped == {j \in GroupIds : last.groups[j].activity \notin config.activity_mappings}
WeekendGroups == {j \in GroupIds : ~is_weekday(last.groups[j].date)}

\* the stored log entries a group was built from
Members(j) == {last.groups[j].entries[k].idx : k \in DOMAIN last.groups[j].entries}

RoundedSum(date) ==
    SumOver([j \in GroupsOn(date) |-> last.groups[j].rounded_minutes], GroupsOn(date))

RawOn(date) ==
    SumOver([j \in GroupsOn(date) |-> last.groups[j].total_minutes], GroupsOn(date))

\* billed minutes of the entries of a date that were pushed before this push
PushedBefore(date) ==
    LET S == {i \in last.before : log.entries[i].date = date}
    IN SumOver([i \in S |-> log.entries[i].billed_minutes], S)

\* minutes of the timesheets all pushes so far created for a date
Exported(date) ==
    LET S == {i \in DOMAIN kimai : kimai[i].by = "push" /\ kimai[i].date = date}
    IN SumOver([i \in S |-> kimai[i].minutes], S)

\* r is m rounded to the nearest multiple of 30, a tie going to the even
\* multiple, and 30 when m is positive and that multiple is 0
IsRounded(m, r) ==
    /\ r % RoundStep = 0
    /\ IF m > 0 /\ 2 * m <= RoundStep
       THEN r = MinRounded
       ELSE /\ 2 * (r - m) <= RoundStep
            /\ 2 * (m - r) <= RoundStep
            /\ (2 * (r - m) = RoundStep \/ 2 * (m - r) = RoundStep)
                  => (r \div RoundStep) % 2 = 0

\* a session as start leaves it at time t
Fresh(s, t) ==
    /\ s.begin = t
    /\ s.last_activity = t
    /\ s.activity_log = <<>>
    /\ \A l \in Labels : s.activity_breakdown[l] = 0

\* C1: a stop of an open session, by the CLI stop command as by the SessionEnd
\* hook, appends exactly one entry to the local log and leaves no session under
\* the identifier in the registry, whatever the external timesheet call of the
\* stop command answers.
C1_StopLogsOnce ==
    [][(last'.op \in {"cmd_stop", "stop_session"} /\ last'.result \in {"stopped", "error"})
          => /\ Len(log'.entries) = Len(log.entries) + 1
             /\ last'.sid \notin Keys(sessions')]_vars

\* C2: after the rounding pass of a push, the rounded minutes of the groups of
\* every weekday date add up to the configured daily limit exactly.
C2_WeekdaySumIsLimit ==
    PushDone => \A d \in GroupDates : is_weekday(d) => RoundedSum(d) = daily_limit(config)

\* C3 as the specification states it: on a Saturday or Sunday the minutes a
\* push exports for a group are the group's raw minutes, ratio 1.0, unrounded.
C3_WeekendRawExactly ==
    PushDone => \A j \in WeekendGroups :
                   /\ last.groups[j].ratio = One
                   /\ last.groups[j].rounded_minutes = last.groups[j].total_minutes

\* C3, amended: on a Saturday or Sunday the ratio is 1.0 and the adjusted
\* minutes are the raw minutes; the minutes exported are the raw minutes rounded
\* to the nearest multiple of 30 (a tie to the even multiple, 30 at least for a
\* positive total), with no residual added to or taken from any group.
C3_WeekendRoundedOnly ==
    PushDone => \A j \in WeekendGroups :
                   /\ last.groups[j].ratio = One
                   /\ last.groups[j].adjusted_minutes = last.groups[j].total_minutes
                   /\ IsRounded(last.groups[j].total_minutes, last.groups[j].rounded_minutes)
                   /\ j \in Succeeded =>
                        \E i \in DOMAIN kimai :
                           /\ kimai[i].by = "push"
                           /\ kimai[i].date = last.groups[j].date
                           /\ kimai[i].activity = last.groups[j].activity
                           /\ kimai[i].minutes = last.groups[j].rounded_minutes

\* a week-end group was exported with minutes that are not its raw minutes
C3_Witness ==
    /\ PushDone
    /\ \E j \in WeekendGroups \cap Succeeded :
          last.groups[j].rounded_minutes # last.groups[j].total_minutes

\* C4: on a weekday whose raw minutes plus already pushed minutes exceed the
\* daily limit, the minutes all pushes so far exported for that date do not
\* exceed the limit.
C4_WeekdayCapped ==
    PushDone => \A d \in GroupDates :
                   (is_weekday(d) /\ RawOn(d) + PushedBefore(d) > daily_limit(config))
                      => Exported(d) <= daily_limit(config)

\* C5: after a push created the timesheet of a group, every source entry of the
\* group is stored in the local log as pushed, the entry the push made of a
\* session that was still open included.
C5_SuccessMarksSources ==
    PushDone => \A j \in Succeeded : \A i \in Members(j) :
                   /\ i \in DOMAIN log.entries
                   /\ log.entries[i].pushed_to_kimai

\* C6: the entries a push marks as pushed are exactly the entries of the groups
\* whose timesheet call succeeded; a failed call marks nothing and does not
\* keep the other groups from being submitted and marked.
C6_MarkedIsUnionOfSucceeded ==
    PushDone => PushedIdx(log) \ last.before = UNION {Members(j) : j \in Succeeded}

\* C7: no timesheet call is made for a group whose activity label has no
\* mapping; the group is skipped and its source entries stay in the local log,
\* unpushed and selected again by the next push.
C7_UnmappedSkipped ==
    /\ \A i \in DOMAIN kimai : kimai[i].activity \in config.activity_mappings
    /\ PushDone => \A j \in Unmapped :
                      /\ last.groups[j].status = "skipped"
                      /\ \A i \in Members(j) :
                            /\ i \in DOMAIN log.entries
                            /\ ~log.entries[i].pushed_to_kimai
                            /\ \E k \in DOMAIN LogItems(log, NoDate) :
                                  LogItems(log, NoDate)[k].idx = i

\* a push skipped a group with an unmapped label and exported another group
C7_Witness ==
    /\ PushDone
    /\ Unmapped # {}
    /\ Succeeded # {}

\* C8: a start that does not fail with AlreadyActive adds exactly one session
\* to the persisted registry, with begin = last_activity = now and an empty
\* activity log and accumulator, for a manager with an identifier as for the
\* manager of the CLI start command, which has none.
C8_StartPersistsOne ==
    [][(last'.op \in {"start", "cmd_start"} /\ last'.result = "started")
          => \E i \in DOMAIN sessions' :
                /\ sessions'[i].sid \notin Keys(sessions)
                /\ Pop(sessions', sessions'[i].sid) = sessions
                /\ Fresh(sessions'[i], now)]_vars

\* C9: start under an identifier that has an open session fails with
\* AlreadyActive and leaves the registry as it was.
C9_AlreadyActiveKeepsRegistry ==
    [][(last'.op = "start" /\ last'.sid \in Keys(sessions))
          => /\ last'.result = "AlreadyActive"
             /\ sessions' = sessions]_vars

\* start was refused for a session that has an activity log and began earlier
C9_Witness ==
    /\ last.op = "start"
    /\ last.result = "AlreadyActive"
    /\ last.sid \in Keys(sessions)
    /\ Get(sessions, last.sid).activity_log # <<>>
    /\ Get(sessions, last.sid).begin < now

\* C10: a session that was stopped, cancelled or reclaimed is in the persisted
\* registry after no later write, until a start under its identifier creates a
\* new session.
C10_EndedStayAbsent == \A sid \in ended : sid \notin Keys(sessions)

\* an invocation that closes orphans
ReclaimOps == {"cmd_cleanup", "start_session"}

\* an invocation that stops a session
StopOps == {"stop", "cmd_stop", "stop_session"}

\* C11: a step that takes an open session out of the registry and appends an
\* entry to the local log is a stop or an orphan reclamation, and a cancel
\* appends nothing to the log.
C11_OnlyStopOrReclaimLogs ==
    [][/\ (Keys(sessions) \ Keys(sessions') # {} /\ Len(log'.entries) > Len(log.entries))
             => last'.op \in StopOps \cup ReclaimOps
       /\ last'.op \in {"cancel", "cmd_cancel"} => log' = log]_vars

\* C12: an activity update under an identifier that has no open session, by
\* the registry method as by the UserPromptSubmit hook, returns without an
\* error and leaves the registry as it was: no session is created.
C12_UpdateWithoutSessionIsNoOp ==
    [][(last'.op \in {"update_activity_sm", "update_activity"}
           /\ last'.sid \notin Keys(sessions))
          => /\ last'.result = "inactive"
             /\ sessions' = sessions
             /\ log' = log]_vars

\* an update was refused for an identifier whose session was ended before,
\* while another session is open
C12_Witness ==
    /\ last.op \in {"update_activity_sm", "update_activity"}
    /\ last.result = "inactive"
    /\ last.sid \in ended
    /\ last.sid \notin Keys(sessions)
    /\ sessions # <<>>

\* C13: the registry's activity update of an open session sets last_activity
\* to now; with an estimate label it appends one observation of that label,
\* adds 1 to the label's accumulator and makes the label the current estimate;
\* with no label the activity log, the accumulators and the current estimate
\* stay as they were. No other session changes.
C13_UpdateRefreshesAndCounts ==
    [][(last'.op = "update_activity_sm" /\ last'.sid \in Keys(sessions))
          => /\ last'.result = "updated"
             /\ last'.sid \in Keys(sessions')
             /\ Pop(sessions', last'.sid) = Pop(sessions, last'.sid)
             /\ LET s == Get(sessions, last'.sid)
                    u == Get(sessions', last'.sid)
                    est == last'.data.estimate
                    n == Len(s.activity_log)
                IN /\ u.last_activity = now
                   /\ u.begin = s.begin
                   /\ est # NoLabel =>
                         /\ Len(u.activity_log) = n + 1
                         /\ SubSeq(u.activity_log, 1, n) = s.activity_log
                         /\ u.activity_log[n + 1].estimate = est
                         /\ u.activity_breakdown[est] = s.activity_breakdown[est] + 1
                         /\ \A l \in Labels \ {est} :
                               u.activity_breakdown[l] = s.activity_breakdown[l]
                         /\ u.current_activity_estimate = est
                   /\ est = NoLabel =>
                         /\ u.activity_log = s.activity_log
                         /\ u.activity_breakdown = s.activity_breakdown
                         /\ u.current_activity_estimate = s.current_activity_estimate]_vars

\* a second update with the same label of a session that began earlier and
\* whose current estimate the hook had set meanwhile: two observations, the
\* accumulator at 2, while another session is open
C13_Witness ==
    /\ last.op = "update_activity_sm"
    /\ last.result = "updated"
    /\ last.data.estimate = "reunion"
    /\ Get(sessions, last.sid).begin < now
    /\ Get(sessions, last.sid).last_activity_estimate_time >= 0
    /\ Len(Get(sessions, last.sid).activity_log) = 2
    /\ Get(sessions, last.sid).activity_breakdown["reunion"] = 2
    /\ Len(sessions) = 2

\* C14: stop with no open session for the identifier fails with
\* NoActiveSession and changes neither the registry nor the local log.
C14_StopWithoutSessionFails ==
    [][(last'.op = "stop" /\ last'.sid \notin Keys(sessions))
          => /\ last'.result = "NoActiveSession"
             /\ sessions' = sessions
             /\ log' = log]_vars

\* a stop failed while another session was open and the log had entries
C14_Witness ==
    /\ last.op = "stop"
    /\ last.result = "NoActiveSession"
    /\ last.sid # NoSid
    /\ sessions # <<>>
    /\ log.entries # <<>>

\* C15: stop of an open session returns a record with end = now,
\* billed_minutes = the whole minutes from begin to now and real_minutes = the
\* whole minutes from begin to last_activity, and removes that session and no
\* other from the registry.
C15_StopReturnsDurations ==
    [][(last'.op = "stop" /\ last'.sid \in Keys(sessions))
          => LET s == Get(sessions, last'.sid)
             IN /\ last'.result = "stopped"
                /\ last'.data.begin = s.begin
                /\ last'.data.end = now
                /\ last'.data.billed_minutes = (now - s.begin) \div 60
                /\ last'.data.real_minutes = (s.last_activity - s.begin) \div 60
                /\ sessions' = Pop(sessions, last'.sid)]_vars

\* a stop returned a record whose real minutes are positive and below its
\* billed minutes, and left another session in the registry
C15_Witness ==
    /\ last.op = "stop"
    /\ last.result = "stopped"
    /\ 0 < last.data.real_minutes
    /\ last.data.real_minutes < last.data.billed_minutes
    /\ sessions # <<>>

\* C16: every entry of the local log that a stop produced has real_minutes <=
\* billed_minutes (the entries of reclaimed sessions have both equal).
C16_RealWithinBilled ==
    \A i \in DOMAIN log.entries :
        log.entries[i].real_minutes <= log.entries[i].billed_minutes

\* a stopped session was logged with real minutes positive and below the
\* billed minutes
C16_Witness ==
    /\ last.op = "stop_session"
    /\ last.result = "stopped"
    /\ LET e == log.entries[Len(log.entries)]
       IN /\ 0 < e.real_minutes
          /\ e.real_minutes < e.billed_minutes
          /\ e.end = now

\* C17: cancel removes the session of the identifier from the registry and
\* leaves every other session and the local log, entries and daily totals, as
\* they were; with no session to cancel nothing changes and nothing is raised.
C17_CancelRemovesOnlyThat ==
    [][last'.op \in {"cancel", "cmd_cancel"}
          => /\ sessions' = Pop(sessions, last'.sid)
             /\ log' = log
             /\ last'.result = IF last'.sid \in Keys(sessions) THEN "cancelled"
                               ELSE IF last'.op = "cancel" THEN "none" ELSE "inactive"]_vars

\* a cancel removed one session and another one stays, the log having entries
C17_Witness ==
    /\ last.op \in {"cancel", "cmd_cancel"}
    /\ last.result = "cancelled"
    /\ sessions # <<>>
    /\ log.entries # <<>>

\* the sessions orphan reclamation leaves at time t: begun on the day of t and
\* no older than the default age limit
KeptAt(ss, t) ==
    SelectSeq(ss, LAMBDA s : /\ s.begin \div DaySeconds = t \div DaySeconds
                             /\ t - s.begin <= DefaultMaxHours * 60 * 60)

\* C18: an orphan reclamation removes from the registry exactly the sessions
\* that began on another calendar day than today or are older than 12 hours;
\* every other open session stays, unchanged (the SessionStart hook then opens
\* the session of its own identifier).
C18_ReclaimsExactlyOrphans ==
    [][/\ last'.op = "cmd_cleanup" => sessions' = KeptAt(sessions, now)
       /\ last'.op = "start_session"
             => Pop(sessions', last'.sid) = Pop(KeptAt(sessions, now), last'.sid)]_vars

\* a reclamation closed a session of today for its age and kept another one
C18_Witness ==
    /\ last.op = "cmd_cleanup"
    /\ last.result = "closed"
    /\ sessions # <<>>
    /\ log.entries[Len(log.entries)].date = DateOf(now)

\* C19: the entry logged for a reclaimed session ends at the session's
\* last_activity, has billed_minutes = real_minutes = the whole minutes from
\* begin to last_activity, is not pushed, and carries the session's current
\* estimate or, when there is none, the configured default activity.
C19_ReclaimedEntry ==
    [][last'.op = "cmd_cleanup"
          => LET gone == SelectSeq(sessions, LAMBDA s : s.sid \notin Keys(sessions'))
                 n == Len(log.entries)
             IN /\ Len(log'.entries) = n + Len(gone)
                /\ SubSeq(log'.entries, 1, n) = log.entries
                /\ \A k \in DOMAIN gone :
                      LET s == gone[k]
                          e == log'.entries[n + k]
                      IN /\ e.begin = s.begin
                         /\ e.end = s.last_activity
                         /\ e.billed_minutes = (s.last_activity - s.begin) \div 60
                         /\ e.real_minutes = e.billed_minutes
                         /\ ~e.pushed_to_kimai
                         /\ e.activity =
                               IF s.current_activity_estimate # NoLabel
                               THEN s.current_activity_estimate
                               ELSE IF config.default_activity # NoLabel
                                    THEN config.default_activity
                                    ELSE "dev_applicatif"]_vars

\* a reclamation logged, under the configured default activity, a session
\* whose last activity lies after its begin and before now
C19_Witness ==
    /\ last.op = "cmd_cleanup"
    /\ last.result = "closed"
    /\ LET e == log.entries[Len(log.entries)]
       IN /\ e.activity = "veille"
          /\ e.billed_minutes > 0
          /\ e.end < now

\* C20: an orphan reclamation that comes right after another one, with no
\* invocation in between, closes no session and appends no entry.
C20_ReclaimTwiceClosesNone ==
    [][(last.op \in ReclaimOps /\ last'.op = "cmd_cleanup")
          => /\ last'.result = "none"
             /\ log' = log
             /\ sessions' = sessions]_vars

\* a reclamation closed nothing right after a reclamation that closed a
\* session, an open session being left
C20_Witness ==
    /\ last.op = "cmd_cleanup"
    /\ last.result = "none"
    /\ last.data.after = "cmd_cleanup"
    /\ last.data.after_result = "closed"
    /\ sessions # <<>>

\* ---------------------------------------------------------------------- C21
\* the entries of a log that were written for session s: a session is the only
\* one of its folder to begin at its begin
EntriesFor(lg, s) ==
    {i \in DOMAIN lg.entries :
        lg.entries[i].folder = s.folder /\ lg.entries[i].begin = s.begin}

\* C21: every session a reclamation run takes out of the registry has exactly
\* one entry in the local log, also when an earlier run was killed between the
\* write of the log and the write of the registry and the run is repeated
C21_ReclaimedHasOneEntry ==
    [][(last'.op = "cmd_cleanup" /\ last'.result = "closed")
         => \A sid \in Keys(sessions) \ Keys(sessions') :
                Cardinality(EntriesFor(log', Get(sessions, sid))) = 1]_vars

\* ---------------------------------------------------------------------- C22
\* the commands that run on the session the identifier-less manager resolves
ImplicitOps == {"cmd_stop", "cmd_cancel", "cmd_activity", "cmd_describe"}

\* C22: the manager without an identifier resolves a session iff exactly one
\* open session has its folder; with none or several it is inactive and stop,
\* cancel, the activity update and describe leave the registry as it was (the
\* step is the one in which the command builds its manager, not the end of a
\* stop that waited for the external service)
C22_ImplicitOnlyWhenUnique ==
    [][(last'.op \in ImplicitOps /\ Len(inflight') >= Len(inflight))
         => LET fs == get_folder_sessions(sessions, "fA")
            IN IF Cardinality(fs) = 1
               THEN /\ is_active(sessions, "fA", NoSid)
                    /\ last'.sid \in fs
                    /\ last'.result # "inactive"
               ELSE /\ ~is_active(sessions, "fA", NoSid)
                    /\ last'.result = "inactive"
                    /\ sessions' = sessions]_vars

\* a command has found two sessions of its folder, opened at different times
C22_Witness ==
    /\ last.op \in ImplicitOps
    /\ last.result = "inactive"
    /\ \E i, j \in DOMAIN sessions :
          /\ sessions[i].folder = "fA" /\ sessions[j].folder = "fA"
          /\ sessions[i].begin < sessions[j].begin

\* ---------------------------------------------------------------------- C23
\* the dates some entry of the log has
EntryDates(lg) == {lg.entries[i].date : i \in DOMAIN lg.entries}

\* the billed and real minutes of all the entries of a date
SumsOn(lg, d) ==
    LET S == {i \in DOMAIN lg.entries : lg.entries[i].date = d}
    IN [billed |-> SumOver([i \in S |-> lg.entries[i].billed_minutes], S),
        real |-> SumOver([i \in S |-> lg.entries[i].real_minutes], S)]

\* C23: for every date the daily total holds the sum of the billed minutes and
\* the sum of the real minutes of the entries of that date, whatever entries
\* were added, filled in, pushed, edited or described
C23_TotalsAreSums ==
    /\ DOMAIN log.daily_totals = EntryDates(log)
    /\ \A d \in EntryDates(log) : log.daily_totals[d] = SumsOn(log, d)

\* an entry was edited in a log that holds two entries of one date, a copy the
\* backfill made and a pushed entry, and a date whose real minutes are fewer
\* than its billed minutes
C23_Witness ==
    /\ last.op = "cmd_edit" /\ last.result = "edited"
    /\ \E d \in DOMAIN log.daily_totals :
          log.daily_totals[d].real < log.daily_totals[d].billed
    /\ \E i, j \in DOMAIN log.entries :
          i # j /\ log.entries[i].date = log.entries[j].date
    /\ \E i \in DOMAIN log.entries : log.entries[i].filled_from # -1
    /\ \E i \in DOMAIN log.entries : log.entries[i].pushed_to_kimai

\* ---------------------------------------------------------------------- C24
\* a push with --fill-empty has just run its backfill (the step that ends at
\* the prompt, at the calls to Kimai or with the command)
FillDone == last.op = "cmd_push" /\ last.data # <<>>

\* the dates of a log that have eligible entries
EligibleDates(lg) ==
    {lg.entries[i].date : i \in {j \in DOMAIN lg.entries : Eligible(lg.entries[j])}}

\* C24: every copy the backfill makes for an empty weekday comes from the
\* nearest earlier weekday that has eligible entries, nearest to that empty
\* day; only when no earlier day has any does it come from the earliest date
\* that has eligible entries
C24_NearestPriorSource ==
    [][FillDone'
         => \A i \in (Len(log.entries) + 1)..Len(log'.entries) :
               LET e == log'.entries[i]
                   dates == EligibleDates(log)
                   prior == {d \in dates : d < e.date /\ is_weekday(d)}
               IN e.filled_from = IF prior # {} THEN MaxOver([d \in prior |-> d], prior)
                                  ELSE MinOver([d \in dates |-> d], dates)]_vars

\* ---------------------------------------------------------------------- C25
\* the eligible entries of a date, by index
EligibleOn(lg, d) ==
    {i \in DOMAIN lg.entries : Eligible(lg.entries[i]) /\ lg.entries[i].date = d}

\* c is a copy of entry e on day d tagged with source date src: e's time of
\* day, duration and minutes, not pushed
IsCopy(c, e, d, src) ==
    /\ c.date = d /\ DateOf(c.begin) = d
    /\ c.begin % DaySeconds = e.begin % DaySeconds
    /\ c.end - c.begin = e.end - e.begin
    /\ c.billed_minutes = e.billed_minutes /\ c.real_minutes = e.real_minutes
    /\ c.folder = e.folder /\ c.project_id = e.project_id /\ c.activity = e.activity
    /\ c.filled_from = src
    /\ ~c.pushed_to_kimai

\* C25: the backfill gives every weekday of the range that has no eligible
\* entry as many entries as the source day has eligible entries, each a copy
\* with the source's clock start time and duration, dated to the empty day,
\* tagged with the source date and not pushed; the other days get nothing and
\* the entries that existed are unchanged
C25_FillCopiesSource ==
    [][FillDone'
         => LET E == log.entries
                F == log'.entries
                dates == EligibleDates(log)
                new == (Len(E) + 1)..Len(F)
                empty == {d \in last'.data[1]..last'.data[2] :
                             is_weekday(d) /\ EligibleOn(log, d) = {}}
            IN /\ Len(F) >= Len(E) /\ SubSeq(F, 1, Len(E)) = E
               /\ \A i \in new : F[i].date \in empty
               /\ dates # {} =>
                    \A d \in empty :
                       \E src \in dates :
                          LET S == EligibleOn(log, src)
                              C == {i \in new : F[i].date = d}
                          IN /\ Cardinality(C) = Cardinality(S)
                             /\ \A i \in C : \E j \in S : IsCopy(F[i], E[j], d, src)
                             /\ \A j \in S : \E i \in C : IsCopy(F[i], E[j], d, src)]_vars

\* ---------------------------------------------------------------------- C26
\* the ratio as the rule states it, a fraction
ExpectedRatio(raw, pushed, limit, expand) ==
    LET remaining == Max(0, limit - pushed)
    IN IF raw <= 0 THEN One
       ELSE IF raw + pushed > limit THEN [num |-> remaining, den |-> raw]
       ELSE IF expand /\ raw + pushed < limit /\ remaining > 0
            THEN [num |-> remaining, den |-> raw]
            ELSE One

SameRatio(a, b) == a.num * b.den = b.num * a.den

\* billed minutes of the pushed entries of a date
PushedOn(date) ==
    LET S == {i \in DOMAIN log.entries :
                 log.entries[i].date = date /\ log.entries[i].pushed_to_kimai}
    IN SumOver([i \in S |-> log.entries[i].billed_minutes], S)

\* C26: the ratio of a day is remaining/raw when raw + pushed exceeds the
\* limit, remaining/raw when expansion is enabled, raw + pushed is below the
\* limit and remaining is positive, and 1 otherwise, with remaining =
\* max(0, limit - pushed); under a limit of 480 with nothing pushed a weekday's
\* single entry of 600 minutes is adjusted to 480 and one of 200 minutes to 480
C26_RatioRule ==
    /\ last.op = "calculate_adjustment_ratio"
          => SameRatio(last.data.ratio,
                       ExpectedRatio(last.data.new_minutes, PushedOn(last.data.date),
                                     last.data.limit, last.data.expand))
    /\ (last.op = "cmd_summary" /\ last.result = "shown")
          => \A j \in GroupIds :
                LET g == last.groups[j]
                IN is_weekday(g.date)
                     => /\ SameRatio(g.ratio,
                                     ExpectedRatio(RawOn(g.date), PushedOn(g.date),
                                                   DefaultLimitHours * 60, TRUE))
                        /\ (PushedOn(g.date) = 0 /\ GroupsOn(g.date) = {j}
                              /\ Cardinality(SeqToSet(g.entries)) = 1
                              /\ g.total_minutes \in {200, 600})
                             => g.adjusted_minutes = 480

\* the summary shows a Monday whose only entry, of 200 minutes, is expanded
C26_Witness ==
    /\ last.op = "cmd_summary" /\ last.result = "shown"
    /\ \E j \in GroupIds :
          /\ last.groups[j].date = 3 /\ GroupsOn(3) = {j}
          /\ last.groups[j].total_minutes = 200
          /\ last.groups[j].ratio = [num |-> 480, den |-> 200]
          /\ PushedOn(3) = 0

\* ---------------------------------------------------------------------- C27
\* the adjusted minutes the report shows for the groups of a date
AdjustedSum(date) ==
    SumOver([j \in GroupsOn(date) |-> last.groups[j].adjusted_minutes], GroupsOn(date))

\* C27: in the values the summary shows, adjusted and not yet rounded, a
\* weekday that is expanded has pushed minutes plus the adjusted minutes of
\* all its groups equal to the daily limit exactly
C27_ExpandedDayIsLimit ==
    (last.op = "cmd_summary" /\ last.result = "shown")
       => \A d \in GroupDates :
             (is_weekday(d) /\ RawOn(d) > 0
                /\ RawOn(d) + PushedOn(d) < daily_limit(config))
                => PushedOn(d) + AdjustedSum(d) = daily_limit(config)

\* ---------------------------------------------------------------------- C28
\* a push has shown its groups, rounded
PushShown == last.op = "cmd_push" /\ last.result \in {"pushed", "dry_run"}

\* C28: the rounding pass of push, before the residual goes to the largest
\* group, gives each group the multiple of 30 nearest to its adjusted minutes,
\* at most 15 away, except that positive adjusted minutes that would round to
\* 0 give 30
C28_NearestThirty ==
    PushShown
       => \A j \in GroupIds :
             LET m == last.groups[j].adjusted_minutes
                 r == last.groups[j].rounded30
             IN /\ r % RoundStep = 0
                /\ IF m > 0 /\ 2 * m <= RoundStep
                   THEN r = MinRounded
                   ELSE r - m <= 15 /\ m - r <= 15

\* a push has rounded a group of fewer than 15 adjusted minutes next to a
\* group that is rounded down
C28_Witness ==
    /\ PushShown
    /\ \E j, k \in GroupIds :
          /\ last.groups[j].adjusted_minutes \in 1..14
          /\ last.groups[j].rounded30 = 30
          /\ last.groups[k].rounded30 < last.groups[k].adjusted_minutes

\* ---------------------------------------------------------------------- C29
\* C29: a weekday whose unpushed eligible entries total zero billed minutes
\* gets no group from the consolidation and nothing from the rounding pass:
\* every weekday a push has a group for has a positive raw total, and only
\* such days get a timesheet
C29_ZeroDayHasNoGroup ==
    PushDone
       => /\ \A d \in GroupDates : is_weekday(d) => RawOn(d) > 0
          /\ \A j \in Succeeded :
                is_weekday(last.groups[j].date) /\ last.groups[j].rounded_minutes > 0
                   => RawOn(last.groups[j].date) > 0

\* ---------------------------------------------------------------------- C30
\* the entries the summary consolidates, by index, and the members of a group
SummaryInput ==
    {i \in DOMAIN log.entries :
        /\ Eligible(log.entries[i])
        /\ last.data.date_arg \in {NoDate, log.entries[i].date}}
MembersOf(j) == {last.groups[j].entries[k].idx : k \in DOMAIN last.groups[j].entries}

\* C30: the consolidation puts every input entry in exactly one group, the
\* group of its (date, project, activity); a group's total is the sum of the
\* billed minutes of its members, its first start their earliest start, its
\* last end their latest end; the totals of the groups add up to the billed
\* minutes of the input
C30_GroupsPartitionInput ==
    (last.op = "cmd_summary" /\ last.result = "shown" /\ sessions = <<>>)
       => LET E == log.entries
              G == last.groups
          IN /\ \A i \in SummaryInput : Cardinality({j \in GroupIds : i \in MembersOf(j)}) = 1
             /\ \A j \in GroupIds :
                   /\ MembersOf(j) \subseteq SummaryInput
                   /\ Len(G[j].entries) = Cardinality(MembersOf(j))
                   /\ MembersOf(j) =
                         {i \in SummaryInput : /\ E[i].date = G[j].date
                                               /\ E[i].project_id = G[j].project_id
                                               /\ E[i].activity = G[j].activity}
                   /\ G[j].total_minutes =
                         SumOver([i \in MembersOf(j) |-> E[i].billed_minutes], MembersOf(j))
                   /\ \A i \in MembersOf(j) :
                         G[j].first_begin <= E[i].begin /\ G[j].last_end >= E[i].end
                   /\ \E i \in MembersOf(j) : G[j].first_begin = E[i].begin
                   /\ \E i \in MembersOf(j) : G[j].last_end = E[i].end
             /\ SumOver([j \in GroupIds |-> G[j].total_minutes], GroupIds)
                   = SumOver([i \in SummaryInput |-> E[i].billed_minutes], SummaryInput)

\* the summary shows a group of two entries, the second one the earlier and
\* the first one with fewer real than billed minutes, next to a group of the
\* same day and activity for another project
C30_Witness ==
    /\ last.op = "cmd_summary" /\ last.result = "shown"
    /\ \E j, k \in GroupIds :
          /\ j # k
          /\ last.groups[j].date = last.groups[k].date
          /\ last.groups[j].activity = last.groups[k].activity
          /\ last.groups[j].project_id # last.groups[k].project_id
          /\ \E a, b \in MembersOf(j) :
                a < b /\ log.entries[b].begin < log.entries[a].begin
                /\ log.entries[a].real_minutes < log.entries[a].billed_minutes
                /\ last.groups[j].first_begin = log.entries[b].begin
                /\ last.groups[j].last_end = log.entries[a].end

\* ---------------------------------------------------------------------- C31
\* C31: only entries classified pro with a project are ever pushed or
\* submitted: after every step every entry classified perso, pending or off,
\* and every entry without a project, has pushed_to_kimai false, and every
\* timesheet the step created carries a project and matches a pro entry of its
\* date and project in the log the step wrote.
C31_OnlyProPushed ==
    [][/\ \A i \in DOMAIN log'.entries :
             log'.entries[i].pushed_to_kimai
                => log'.entries[i].folder_type = "pro" /\ log'.entries[i].project_id # 0
       /\ \A k \in (Len(kimai) + 1)..Len(kimai') :
             /\ kimai'[k].project_id # 0
             /\ \E i \in DOMAIN log'.entries :
                   /\ log'.entries[i].folder_type = "pro"
                   /\ log'.entries[i].project_id = kimai'[k].project_id
                   /\ log'.entries[i].date = kimai'[k].date]_vars

\* a CLI stop has just logged a pro entry as pushed, after its call to Kimai,
\* while a perso entry that has a project stays unpushed in the same log
C31_Witness ==
    /\ last.op = "cmd_stop" /\ last.result = "stopped"
    /\ kimai # <<>>
    /\ \E i, j \in DOMAIN log.entries :
          /\ log.entries[i].folder_type = "perso" /\ log.entries[i].project_id # 0
          /\ ~log.entries[i].pushed_to_kimai
          /\ log.entries[j].folder_type = "pro" /\ log.entries[j].pushed_to_kimai

\* ---------------------------------------------------------------------- C32
\* C32: an entry is stored with pushed_to_kimai true only if a timesheet
\* creation covering it was performed and succeeded: every pushed entry has a
\* created timesheet of its date, project and activity, whatever dry_run is.
C32_PushedWasSubmitted ==
    \A i \in DOMAIN log.entries :
        log.entries[i].pushed_to_kimai
           => \E k \in DOMAIN kimai :
                 /\ kimai[k].date = log.entries[i].date
                 /\ kimai[k].project_id = log.entries[i].project_id
                 /\ kimai[k].activity = log.entries[i].activity

\* ---------------------------------------------------------------------- C33
\* C33: a pushed entry is immutable: whatever operation runs next (add_entry,
\* edit, describe, push, backfill), every entry that has pushed_to_kimai true
\* is still at its place in the log with every field unchanged, pushed_to_kimai
\* included.
C33_PushedIsFrozen ==
    [][\A i \in DOMAIN log.entries :
          log.entries[i].pushed_to_kimai
             => /\ i \in DOMAIN log'.entries
                /\ log'.entries[i] = log.entries[i]]_vars

\* ---------------------------------------------------------------------- C34
\* C34: the per-label activity accumulator of an open session never decreases:
\* for every session that is open before and after a step (same identifier,
\* same begin), each label's count afterwards is at least its count before,
\* also when invocations that load and save the registry interleave.
C34_AccumulatorGrows ==
    [][\A sid \in Keys(sessions) \cap Keys(sessions') :
          Get(sessions', sid).begin = Get(sessions, sid).begin
             => \A l \in Labels :
                   Get(sessions', sid).activity_breakdown[l]
                      >= Get(sessions, sid).activity_breakdown[l]]_vars

\* ---------------------------------------------------------------------- C35
\* the operations that read the configuration: the CLI commands and the three
\* hook events once main has dispatched them
NeedsConfig == ConfigCommands \cup {"start_session", "stop_session", "update_activity"}

\* C35: with no configuration, every operation that requires one (CLI start,
\* stop, push, summary, set, cleanup, edit, activity and the three hook
\* events) ends with ConfigurationMissing and leaves the registry, the log and
\* the folder mappings as they were (an operation that began with the
\* configuration in place and goes on after its wait is not one of them).
C35_NoConfigNoChange ==
    [][(~config.present /\ invoked' # invoked /\ last'.op \in NeedsConfig)
          => /\ last'.result = "ConfigurationMissing"
             /\ sessions' = sessions
             /\ log' = log
             /\ mappings' = mappings]_vars

\* a SessionEnd hook for the open session s1 has just aborted for want of a
\* configuration, with an unpushed entry in the log and the folder mapped
C35_Witness ==
    /\ ~config.present
    /\ last.op = "stop_session" /\ last.result = "ConfigurationMissing"
    /\ last.sid \in Keys(sessions)
    /\ log.entries # <<>>
    /\ mappings["fA"].present

\* ---------------------------------------------------------------------- C36
\* C36: folders classified off are never tracked: no step opens a session for
\* a folder whose mapping is off, and after every step no entry of the log
\* carries the classification off.
C36_OffNeverTracked ==
    [][/\ \A sid \in Keys(sessions') \ Keys(sessions) :
             LET m == get_folder_mapping(mappings, Get(sessions', sid).folder)
             IN ~(m.present /\ m.folder_type = "off")
       /\ \A i \in DOMAIN log'.entries : log'.entries[i].folder_type # "off"]_vars

\* ---------------------------------------------------------------------- C37
\* C37: no lost update on the log: when invocations interleave their load and
\* their save of the log, every entry that one of them appended and every
\* pushed mark that one of them set is still in the log after the other's
\* save, so that both are there once both have completed.
C37_LogKeepsBoth ==
    [][\A i \in DOMAIN log.entries :
          \E j \in DOMAIN log'.entries :
              /\ log'.entries[j].begin = log.entries[i].begin
              /\ log'.entries[j].folder = log.entries[i].folder
              /\ log.entries[i].pushed_to_kimai => log'.entries[j].pushed_to_kimai]_vars

\* ---------------------------------------------------------------------- C38
\* C38: a push in dry-run mode (dry_run true, no --force) changes nothing,
\* whatever its date, pad and fill-empty arguments: no timesheet is created,
\* no open session is closed, no entry is marked, and the entries and daily
\* totals of the log are the same after it.
C38_DryRunPushIsInert ==
    [][(last'.op = "cmd_push" /\ config.dry_run = "true")
          => /\ kimai' = kimai
             /\ sessions' = sessions
             /\ log' = log]_vars

\* ---------------------------------------------------------------------- C39
\* C39: the backfill is idempotent: a backfill that directly follows a
\* backfill of the same range, with no other change to the log in between (the
\* first command is still at its prompt, or had nothing to push), creates no
\* entry and leaves the entries and the daily totals of the log as they were.
C39_FillIsIdempotent ==
    [][(/\ FillDone /\ FillDone' /\ invoked' # invoked
        /\ last'.data[1] = last.data[1] /\ last'.data[2] = last.data[2])
          => /\ last'.data[3] = 0
             /\ log'.entries = log.entries
             /\ log'.daily_totals = log.daily_totals]_vars

\* a backfill has just created nothing over a range of which every weekday
\* holds a copy made by an earlier backfill, while the command of that earlier
\* backfill is at its prompt
C39_Witness ==
    /\ FillDone /\ last.result = "asked"
    /\ last.data[3] = 0
    /\ Cardinality(Flights("input")) = 2
    /\ \A d \in get_weekdays_in_range(last.data[1], last.data[2]) :
          \E i \in DOMAIN log.entries :
              log.entries[i].date = d /\ log.entries[i].filled_from # -1

\* ---------------------------------------------------------------------- C40
\* the hook inputs the claim is about: no session identifier, or a
\* SessionStart whose source is resume, clear or compact
Resumed(in) ==
    \/ in.session_id = NoSid
    \/ in.hook_event_name = "SessionStart" /\ in.source \in {"resume", "clear", "compact"}

\* C40: the hook does nothing for a SessionStart with source resume, clear or
\* compact and for any event without session identifier: the registry and the
\* log are unchanged, so no session is started, no orphan is reclaimed and an
\* open session of that identifier keeps its start timestamp.
C40_ResumeIsIgnored ==
    [][(last'.op \in {"main", "start_session", "stop_session", "update_activity"}
           /\ Resumed(last'.data))
          => /\ last'.result = "ignored"
             /\ sessions' = sessions
             /\ log' = log
             /\ ended' = ended]_vars

\* a SessionStart with source resume was ignored for the identifier of an open
\* session that is old enough to be reclaimed by a cleanup
C40_Witness ==
    /\ last.op = "main" /\ last.result = "ignored"
    /\ last.data.hook_event_name = "SessionStart" /\ last.data.source = "resume"
    /\ last.data.session_id \in Keys(sessions)
    /\ is_old(Get(sessions, last.data.session_id), now, DefaultMaxHours)

====
